---------------------------- MODULE MCDashboard -----------------------------
(* TLC instance of the dashboard over Discovery and RequestLedger.           *)
EXTENDS Dashboard, SequencesExt

\* A name is the words between its commas: "a" and "b", which join to "a,b", are one list
\* and the single name "a,b" is another.
MCLists == {<< <<"a">>, <<"b">> >>, << <<"a", "b">> >>, << <<"a">> >>}
MCJoin(l) == FlattenSeq(l)

\* One peer drops its second name before its second announcement, the other has one name
\* and announces once.
MCNames ==
    LET p == CHOOSE x \in Peer : TRUE IN
    [x \in Peer |-> IF x = p THEN << << <<"a">>, <<"b">> >>, << <<"a">> >> >>
                            ELSE << << <<"a">> >> >>]
=============================================================================
