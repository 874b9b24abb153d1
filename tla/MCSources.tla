----------------------------- MODULE MCSources ------------------------------
(* A small instance of every part.                                          *)
EXTENDS Sources

\* What a run asks for; "device" and "battery" have two targets each.
SnapshotTarget ==
    [modbus |-> {1}, device |-> {1, 2}, battery |-> {1, 2}, alarm |-> {1}]

\* The household has named a device before the cloud was asked, and the name
\* is still open.
LocalNames ==
    {[device |-> "meter", name |-> "hall", from |-> 0, to |-> 0,
      source |-> "household"]}

Line(time, value) == [at |-> time, value |-> value]

\* An export with a repeated row and a gap, two of one stem that contradict
\* it at one time, and one that runs backwards.
Exports ==
    [a_csv |-> [stem |-> "a", suffix |-> "csv",
                rows |-> <<Line(1, 1), Line(1, 1), Line(2, 1), Line(6, 1)>>],
     b_csv |-> [stem |-> "b", suffix |-> "csv",
                rows |-> <<Line(2, 2), Line(3, 1)>>],
     b_xlsx |-> [stem |-> "b", suffix |-> "xlsx",
                 rows |-> <<Line(2, 2), Line(3, 1)>>],
     c_csv |-> [stem |-> "c", suffix |-> "csv",
                rows |-> <<Line(2, 1), Line(1, 1)>>]]

\* A refusal, a short answer that is not good, and a long one that is.
GatewayAnswers ==
    {<<"refused">>, <<"unmapped", "invalid">>, <<"usable", "hidden", "usable">>}

\* A status as long as the long answer, with its rows in another order.
GatewayNotices == {<<"hidden", "usable", "usable">>}
=============================================================================
