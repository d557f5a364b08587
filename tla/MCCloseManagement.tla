-------------------------- MODULE MCCloseManagement --------------------------
(* Four of the seventeen steps: a provision (8), the inventories, which are *)
(* calculated and approved (12), the posting (14), and a draft that is     *)
(* approved (17).                                                          *)
EXTENDS CloseManagement
=============================================================================
