------------------------------- MODULE MCForum ---------------------------------
(* BusinessForum on small sets of model values. *)
EXTENDS BusinessForum, MCBusiness
================================================================================
