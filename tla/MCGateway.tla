----------------------------- MODULE MCGateway -----------------------------
(* Inputs of Gateway for TLC, and the conversions over all their inputs. *)
EXTENDS Gateway, Calendar, FiniteSets

\* 2^32 seconds end on day 49710: every day a row can be dated with is the
\* day its date is the number of, and the next one's date follows it.
ASSUME CalendarIsExact ==
  \A n \in 0..49710 : DayNumber(Ymd(n)) = n /\ Ymd(n + 1) = NextDay(Ymd(n))

\* More battery never reads as less, and the percentage fits its field.
ASSUME PercentIsMonotone ==
  \A mv \in 2900..4400 : BattPercent(mv) \in 0..100 /\ BattPercent(mv) <= BattPercent(mv + 1)

Good == [Defaults EXCEPT !.subject = "S", !.motion = 0, !.reserved = 1]

\* No record, one of another firmware, one of older firmware with zeros where
\* fields came later, one with every number too large, one as it should be.
Stored ==
  {None, Odd, Good,
   [subject |-> Empty, adv |-> 0, scan |-> 0, vitals |-> 0, multiplier |-> 0,
    motion |-> 0, reserved |-> 0],
   [subject |-> "S", adv |-> 3, scan |-> 3, vitals |-> 3, multiplier |-> 3,
    motion |-> 2, reserved |-> 0]}

Number(k, v) == [key |-> k, kind |-> "number", value |-> v]
Text(k, v)   == [key |-> k, kind |-> "text", value |-> v]
Bool(k, v)   == [key |-> k, kind |-> "bool", value |-> v]
Other(k)     == [key |-> k, kind |-> "other", value |-> 0]

\* Numbers at and over the clamp and over 16 bits, empty and other names, a
\* field twice, values of the wrong kind.
Sent ==
  {<<Number("timestamp", 1)>>,
   <<Number("timestamp", 0)>>,
   <<Number("timestamp", 1), Text("subjectId", Empty), Number("advInterval", 3),
     Number("scanInterval", 0), Bool("reset", FALSE)>>,
   <<Number("scanInterval", 4), Number("vitalsInterval", 0), Number("inactivityMultiplier", 3),
     Bool("reset", TRUE)>>,
   <<Bool("motionLogging", FALSE), Number("vitalsInterval", 2), Number("inactivityMultiplier", 0),
     Number("vitalsInterval", 1), Other("subjectId"), Text("advInterval", "S"),
     Bool("clearMemory", TRUE)>>}

\* A message with each field once and of its kind is read as it was meant, in
\* whatever order it has the fields.
ASSUME MessagesReadAsMeant ==
  \A a, b, c \in {Number("timestamp", 1), Text("subjectId", "S"), Bool("motionLogging", FALSE)} :
    Cardinality({a, b, c}) = 3 =>
      /\ Parsed(<<a, b, c>>).timestamp = 1
      /\ Parsed(<<a, b, c>>).subject = "S"
      /\ Parsed(<<a, b, c>>).motion = 0
      /\ Parsed(<<a, b, c>>).scan = Absent /\ ~Parsed(<<a, b, c>>).reset

=============================================================================
