---------------------------- MODULE Suppressions ----------------------------
(***************************************************************************)
(* SuppressionManager (WorkshopC/src/suppression_manager.cpp): the lines   *)
(* of a file that comments turn the rules off for.  A line is the set of   *)
(* what it holds: "off", "on", "reason" and the names of the rules it      *)
(* breaks.  Each scan goes through the lines one by one; a function of the *)
(* number of lines read says what it knows by then.                        *)
(***************************************************************************)
EXTENDS Integers, Sequences

-----------------------------------------------------------------------------
(* parseFile: the ranges from each off to the next on, or to the end.      *)

NothingRead == [disabled |-> FALSE, start |-> 0, ranges |-> {}]

Open(s, line, n) == IF "off" \in line /\ ~s.disabled
                    THEN [disabled |-> TRUE, start |-> n, ranges |-> s.ranges] ELSE s
Close(s, line, n) == IF "on" \in line /\ s.disabled
                     THEN [disabled |-> FALSE, start |-> s.start,
                           ranges   |-> s.ranges \cup {<<s.start, n>>}]
                     ELSE s

Scan(lines) ==
    LET scan[n \in 0..Len(lines)] ==
            IF n = 0 THEN NothingRead
            ELSE Close(Open(scan[n - 1], lines[n], n), lines[n], n)
    IN  scan

ParseFile(lines) ==
    LET s == Scan(lines)[Len(lines)]
    IN  s.ranges \cup (IF s.disabled THEN {<<s.start, Len(lines)>>} ELSE {})

IsSuppressed(lines, i) == \E r \in ParseFile(lines) : r[1] <= i /\ i <= r[2]

-----------------------------------------------------------------------------
(* findMissingReasons and findUnbalanced                                   *)

\* The lines of the offs that open a range, without a reason on the next line.
MissingReasons(lines) ==
    LET bare(n) == n = Len(lines) \/ "reason" \notin lines[n + 1]
        scan[n \in 0..Len(lines)] ==
            IF n = 0 THEN [disabled |-> FALSE, missing |-> {}]
            ELSE LET s     == scan[n - 1]
                     opens == "off" \in lines[n] /\ ~s.disabled
                 IN  [disabled |-> (s.disabled \/ opens) /\ "on" \notin lines[n],
                      missing  |-> s.missing \cup {k \in {n} : opens /\ bare(k)}]
    IN  scan[Len(lines)].missing

\* The lines with a nested off, with an on without an off, and with an off that is never
\* turned back on.
FindUnbalanced(lines) ==
    LET scan[n \in 0..Len(lines)] ==
            IF n = 0 THEN [disabled |-> FALSE, start |-> 0, nested |-> {}, without |-> {}]
            ELSE LET s   == scan[n - 1]
                     off == "off" \in lines[n]
                     on  == "on" \in lines[n]
                 IN  [disabled |-> (s.disabled \/ off) /\ ~on,
                      start    |-> IF off /\ ~s.disabled THEN n ELSE s.start,
                      nested   |-> s.nested \cup {k \in {n} : off /\ s.disabled},
                      without  |-> s.without \cup {k \in {n} : on /\ ~s.disabled /\ ~off}]
        s == scan[Len(lines)]
    IN  [SuppressionNested          |-> s.nested,
         SuppressionOnWithoutOff    |-> s.without,
         SuppressionNotTurnedBackOn |-> {k \in {s.start} : s.disabled}]

-----------------------------------------------------------------------------
(* What the comments mean                                                  *)

\* Nothing is reported from an off to the on that ends it: line i is suppressed when some off
\* before it, or on it, has no on between the two.
Silenced(lines, i) ==
    \E j \in 1..i : /\ "off" \in lines[j]
                    /\ \A k \in j..(i - 1) : "on" \notin lines[k]
=============================================================================
