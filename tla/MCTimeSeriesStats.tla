--------------------------- MODULE MCTimeSeriesStats ---------------------------
(* Frames for TLC: a week that no day divides, and a month that two frames do; *)
(* chunks of uneven lengths, one of them the last instant of an hour and a day. *)
EXTENDS TimeSeriesStats

HourToAll == <<"Hour", "Day", "Week", "Month", "All">>
Sizes == [Hour |-> 3, Day |-> 6, Week |-> 9, Month |-> 12]
UnevenChunks == <<DateRange(1, 4), DateRange(5, 5), DateRange(6, 9),
                  DateRange(10, 14)>>
================================================================================
