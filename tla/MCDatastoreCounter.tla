------------------------- MODULE MCDatastoreCounter -------------------------
(***************************************************************************)
(* Small instances of DatastoreCounter: two counters, the second of which  *)
(* is counted by one process only, so that the first has a group to        *)
(* condense.                                                               *)
(***************************************************************************)
EXTENDS DatastoreCounter

Order2 == << <<"a", "p">>, <<"a", "q">>, <<"b", "p">>, <<"b", "q">> >>
Limit2 == [key \in Ids \X Shards |->
             IF key = <<"a", "p">> THEN 2 ELSE IF key = <<"b", "q">> THEN 0 ELSE 1]
=============================================================================
