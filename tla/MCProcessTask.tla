---------------------------- MODULE MCProcessTask ----------------------------
\* A chain of two ProcessTasks.  The first enters at "home", whose sub may fail
\* and whose next list loops between "btn", limited to two, and "page", which
\* takes one execution of "btn" back; a miss there goes on with "retry", the
\* limit with "end" (action Stop).  The second has subs that must not fail, one
\* of them with a sub of its own.
EXTENDS ProcessTask

CONSTANTS home, btn, page, retry, end, enter, popup, close

MCTask == {home, btn, page, retry, end, enter, popup, close}

Data(F) == [t \in MCTask |-> IF t \in DOMAIN F THEN F[t] ELSE <<>>]

MCNextOf == Data([t \in {home, btn, page, retry, enter} |->
  CASE t = home -> <<page, btn>>
    [] t = btn -> <<page, btn>>
    [] t = page -> <<btn, end>>
    [] t = retry -> <<btn>>
    [] t = enter -> <<enter>>])
MCOnErrorNext == Data([t \in {btn} |-> <<retry>>])
MCExceededNext == Data([t \in {btn} |-> <<end>>])
MCSub == Data([t \in {home, enter, close} |->
  IF t = enter THEN <<popup, close>> ELSE <<popup>>])
MCReduceOther == [t \in MCTask |-> IF t = page THEN {btn} ELSE {}]
MCMaxTimes == [t \in {btn, enter} |-> 2]
MCJustReturn == {home, end}
MCStopAction == {end}
MCSubErrorIgnored == {home}
MCPackage == <<<<home>>, <<enter>>>>
==============================================================================
