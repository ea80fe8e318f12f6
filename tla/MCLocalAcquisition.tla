-------------------------- MODULE MCLocalAcquisition --------------------------
(* LocalAcquisition on files of a few bytes. *)
EXTENDS LocalAcquisition

CONSTANT MaxLength      \* the length of the longest planned file

(* Every text of newlines and the marked byte, and two with both terminators. *)
Texts ==
    UNION {[1 .. n -> {Newline, Marked}] : n \in 0 .. MaxLength}
    \cup {<<Marked, Return, Newline>>, <<Return, Newline, Return>>}

(* Caps that bite on records, on bytes per record, or not at all, and one a *)
(* file may be too long for.                                                *)
Tight ==
    {<<[source |-> 9, records |-> 1, perRecord |-> 9], "source_exact">>,
     <<[source |-> 9, records |-> 9, perRecord |-> 2], "omitted">>,
     <<[source |-> 9, records |-> 9, perRecord |-> 9], "post_policy">>,
     <<[source |-> 2, records |-> 2, perRecord |-> 2], "source_exact">>}
=============================================================================
