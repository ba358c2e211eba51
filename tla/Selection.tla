----------------------------- MODULE Selection -----------------------------
(***************************************************************************)
(* Searching a list for all the entries of some kind, from the first to    *)
(* the last, as the routers search their bundles and the registration      *)
(* managers their endpoints.                                               *)
(***************************************************************************)
EXTENDS Naturals, Sequences

(* The entries that are in the set given, in their order. *)
Selected(list, kept) ==
  LET upTo[n \in 0..Len(list)] ==
        IF n = 0 THEN <<>>
        ELSE IF list[n] \in kept THEN Append(upTo[n - 1], list[n]) ELSE upTo[n - 1]
  IN  upTo[Len(list)]
=============================================================================
