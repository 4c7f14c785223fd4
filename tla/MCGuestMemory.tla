--------------------------- MODULE MCGuestMemory ----------------------------
(* Three pages of two bytes.  The one buffer of four bytes fills two pages  *)
(* when its address is aligned and touches all three when it is not.  The   *)
(* tester maps pages for reading and writing, with or without execution;    *)
(* the two masks here are those that make a permission fault possible.      *)
EXTENDS GuestMemory

MCBuffers == {<<>>, <<1, 0, 1, 1>>}

MCMapRights == {{"read"}, {"write"}}

=============================================================================
