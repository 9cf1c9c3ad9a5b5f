----------------------------- MODULE MCSchedule -----------------------------
(* Instances of Schedule for TLC. *)
EXTENDS Schedule

CONSTANTS s1, hourly, urgent, plain

\* A release that declares s1, to catch up, and one that no longer does.  The row
\* may be from a release that did not let it catch up, or differed in another
\* field.
DroppedOrCaughtUp == {[s \in {s1} |-> hourly], [s \in {} |-> hourly]}

\* Releases that declare s1 with and without catchup.
EitherWay == [{s1} -> {hourly, plain}]

=============================================================================
