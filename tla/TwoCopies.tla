----------------------------- MODULE TwoCopies -----------------------------
(***************************************************************************)
(* What a synchronised calendar promises of one event, without queues,     *)
(* workers, ETags or lost answers.  There are two copies, the user's and   *)
(* the server's.  What the user asks for is asked in numbered deliveries.  *)
(* A delivery takes effect at once, says something that was asked in it,   *)
(* and replaces only a copy of an earlier author that the user's side      *)
(* knows.  Deliveries are settled in order, and only once the server was   *)
(* seen to have what was asked last.  The user's copy is replaced only by  *)
(* what the server had (nothing, if it says that the event does not take   *)
(* place), and only while no delivery is open.  To know the                *)
(* server's copy then is to say the same, unless a delivery was settled    *)
(* while the copy that replaces the user's was under way.                  *)
(***************************************************************************)
EXTENDS Naturals, Sequences

CONSTANTS
  Text,
  Void,      \* the texts that say the event does not take place
  None,      \* what a copy says that is not there
  Delivery   \* the numbers deliveries may have

VARIABLES
  mine,      \* the user's copy
  theirs,    \* the server's copy
  author,    \* the delivery it is from, 0 for another client
  known,     \* does the user's side know the server's present copy
  asked,     \* what was asked for in each delivery, the last at the end
  open,      \* deliveries neither settled nor called off
  seen,      \* deliveries that were seen to be in effect
  looked,    \* what the server had when it was last looked at, at most one
  late       \* was a delivery settled since

copies == <<mine, theirs, author, known, asked, open, seen, looked, late>>

Says      == Text \cup {None}
Shown(t)  == IF t \in Void THEN None ELSE t
Wanted(d) == asked[d][Len(asked[d])]

Init ==
  /\ theirs \in Says /\ mine = Shown(theirs) /\ author = 0
  /\ known = (theirs # None)
  /\ asked = [d \in Delivery |-> << >>] /\ open = {} /\ seen = {} /\ looked = << >>
  /\ late = FALSE

Ask(d, t) ==
  /\ d \in open \/ asked[d] = << >>
  /\ mine' = t
  /\ asked' = [asked EXCEPT ![d] = Append(@, t)] /\ open' = open \cup {d}
  /\ UNCHANGED <<theirs, author, known, seen, looked, late>>

\* The event is taken back before it is known to be there.
CallOff(d) ==
  /\ d \in open /\ ~known
  /\ mine' = None /\ open' = open \ {d}
  /\ UNCHANGED <<theirs, author, known, asked, seen, looked, late>>

\* However late: a delivery that is settled may still be under way.
Write(d) ==
  /\ theirs # None => known /\ author < d
  /\ \E k \in 1 .. Len(asked[d]) : theirs' = asked[d][k]
  /\ author' = d /\ known' = FALSE
  /\ seen' = seen \/ (seen' = seen \cup {d} /\ theirs' = Wanted(d))
  /\ UNCHANGED <<mine, asked, open, looked, late>>

\* What was asked is there already, or is to delete what was never known.
See(d) ==
  /\ d \in open
  /\ theirs = Wanted(d) \/ (Wanted(d) = None /\ ~known)
  /\ seen' = seen \cup {d}
  /\ UNCHANGED <<mine, theirs, author, known, asked, open, looked, late>>

Forget ==
  /\ seen' \subseteq seen
  /\ UNCHANGED <<mine, theirs, author, known, asked, open, looked, late>>

\* What the delivery left behind is known, if it is there still.
Settle(d) ==
  /\ d \in open \cap seen /\ \A e \in open : d <= e
  /\ open' = open \ {d} /\ seen' = seen \ {d}
  /\ known' \in {FALSE, theirs # None}
  /\ known' /\ open' = {} => mine = theirs
  /\ late' \in {FALSE, looked # << >>}
  /\ UNCHANGED <<mine, theirs, author, asked, looked>>

\* Another client writes or deletes.
Foreign ==
  /\ theirs # None
  /\ theirs' \in Says /\ author' = 0 /\ known' = FALSE
  /\ UNCHANGED <<mine, asked, open, seen, looked, late>>

Look ==
  /\ looked' \in {<< >>, <<theirs>>} /\ late' = FALSE
  /\ UNCHANGED <<mine, theirs, author, known, asked, open, seen>>

Pull ==
  /\ open = {} /\ looked # << >>
  /\ mine' = Shown(looked[1]) /\ looked' = << >> /\ late' = FALSE
  /\ known' \in {FALSE, theirs # None} /\ (known' => late \/ mine' = Shown(theirs))
  /\ UNCHANGED <<theirs, author, asked, open, seen>>

Next ==
  \/ \E d \in Delivery : CallOff(d) \/ Write(d) \/ See(d) \/ Settle(d)
                           \/ \E t \in Says : Ask(d, t)
  \/ Forget \/ Foreign \/ Look \/ Pull

Spec == Init /\ [][Next]_copies
=============================================================================
