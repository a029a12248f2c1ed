----------------------------- MODULE MiddleLink -----------------------------
(***************************************************************************)
(* The perception link from MIDDLE to HPVC: the MIDDLE publisher numbers   *)
(* its datagrams from 0 at every start, the network loses, delays,         *)
(* duplicates and reorders them, and middleLinkMonitor decides on the HPVC *)
(* clock whether the link is alive.  A restarted sender's numbers look old *)
(* to the monitor, so it accepts any other number once the link has been   *)
(* silent for the resynchronisation time.                                  *)
(*                                                                         *)
(* The timing is explicit: while MIDDLE runs it publishes every MinPeriod  *)
(* (its processing period) to MaxPeriod ticks (a slow or failing camera),  *)
(* at most MaxLoss datagrams in a row are lost, and a datagram is          *)
(* delivered, once or several times, within MaxDelay ticks.                *)
(***************************************************************************)
EXTENDS WordArith, FiniteSets

CONSTANTS
    MinPeriod, MaxPeriod, MaxLoss, MaxDelay,
    Timeout,        \* timeoutS
    RestartFloor    \* the 1.0 s below which restartResyncS never falls

\* A datagram is delivered well within the second that resynchronisation asks
\* for at least, and neither what is in flight at a time nor what is lost in a
\* row comes near half of the 2^32 sequence numbers.
ASSUME LinkAssumption ==
    /\ MinPeriod \in Nat \ {0} /\ MaxPeriod \in Nat /\ MinPeriod <= MaxPeriod
    /\ {MaxLoss, MaxDelay, Timeout, RestartFloor} \subseteq Nat
    /\ MaxDelay < RestartFloor
    /\ MaxDelay < HalfWord /\ MaxLoss < HalfWord

VARIABLES
    \* MIDDLE: whether it runs, its next sequence number, the time since it
    \* last published, the time since it started.
    running, sequence, sincePublish, upAge,
    \* The network: datagrams that can still be delivered, and how many of the
    \* last published in a row were lost.
    net, losses,
    \* middleLinkMonitor: initialized, lastSequence and
    \* currentTimeS - lastFreshTimeS.
    initialized, lastSequence, freshAge,
    \* Observer only: a datagram published before one that had already been
    \* accepted was accepted.
    replayed

sender  == <<running, sequence, sincePublish, upAge>>
monitor == <<initialized, lastSequence, freshAge>>
vars    == <<sender, net, losses, monitor, replayed>>

\* restartResyncS.
RestartResync == IF 5 * Timeout > RestartFloor THEN 5 * Timeout ELSE RestartFloor

\* The longest the link can stay silent while MIDDLE runs: the silence the
\* monitor asks for, then a burst of losses, then, when the one datagram that
\* got through carried lastSequence itself, a second burst.
OutageBound == RestartResync + 2 * (MaxLoss + 1) * MaxPeriod + MaxDelay

AgeCap   == OutageBound + 1
Ages     == 0 .. AgeCap

\* A datagram in the network; newer holds (observer only) when it was published
\* after the last one accepted.
Datagram == [sequence : Words, age : 0 .. MaxDelay, delivered : BOOLEAN, newer : BOOLEAN]

TypeOK ==
    /\ running \in BOOLEAN /\ sequence \in Words
    /\ sincePublish \in 0 .. MaxPeriod /\ upAge \in Ages
    /\ net \subseteq Datagram /\ losses \in 0 .. MaxLoss
    /\ initialized \in BOOLEAN /\ lastSequence \in Words /\ freshAge \in Ages
    /\ replayed \in BOOLEAN

Init ==
    /\ running = TRUE /\ sequence = 0 /\ sincePublish = MinPeriod /\ upAge = 0
    /\ net = {} /\ losses = 0
    /\ initialized = FALSE /\ lastSequence = 0 /\ freshAge = 0
    /\ replayed = FALSE

-----------------------------------------------------------------------------
\* Mutant of NextSequence: the number is not masked to 32 bits.
NextSequence_Unmasked(n) == n + 1

NextSequence(n) == WordAdd(n, 1)

\* One turn of PerceptionProcessor.run: a datagram is packed and sent, and
\* reaches the network or is lost.
Publish ==
    /\ running
    /\ sincePublish >= MinPeriod
    /\ \/ /\ net' = net \union {[sequence |-> sequence, age |-> 0,
                                 delivered |-> FALSE, newer |-> TRUE]}
          /\ losses' = 0
       \/ /\ losses < MaxLoss
          /\ losses' = losses + 1
          /\ UNCHANGED net
    /\ sequence' = NextSequence(sequence)
    /\ sincePublish' = 0
    /\ UNCHANGED <<running, upAge, monitor, replayed>>

\* MIDDLE stops; it is down for longer than the network delays a datagram.
StopMiddle ==
    /\ running
    /\ running' = FALSE
    /\ UNCHANGED <<sequence, sincePublish, upAge, net, losses, monitor, replayed>>

StartMiddle ==
    /\ ~running
    /\ net = {}
    /\ running' = TRUE
    /\ sequence' = 0
    /\ sincePublish' = MinPeriod
    /\ upAge' = 0
    /\ UNCHANGED <<net, losses, monitor, replayed>>

\* Mutants of Accepts: a number is accepted again; a restarted sender is never
\* recognised.
Accepts_Again(number) ==
    ~initialized \/ WordSub(number, lastSequence) < HalfWord \/ freshAge >= RestartResync

Accepts_NoRestart(number) == ~initialized \/ sequenceNewer(number, lastSequence)

\* The monitor takes a valid packet for a new one.
Accepts(number) ==
    \/ ~initialized
    \/ sequenceNewer(number, lastSequence)
    \/ number # lastSequence /\ freshAge >= RestartResync

\* middleLinkMonitor is called with a valid packet.  Without one it changes
\* nothing.  Its reset input is left out: the block that calls it feeds it the
\* constant false (buildHpvcDesktopValidationModel.m:142), and a reset would
\* be another Init of the monitor.
Deliver(p) ==
    LET accept == Accepts(p.sequence)
    IN  /\ net' = {[q EXCEPT !.delivered = @ \/ q = p,
                             !.newer = @ /\ ~(accept /\ q.age >= p.age)] : q \in net}
        /\ replayed' = (replayed \/ (accept /\ ~p.newer))
        /\ IF accept
           THEN initialized' = TRUE /\ lastSequence' = p.sequence /\ freshAge' = 0
           ELSE UNCHANGED monitor
        /\ UNCHANGED <<sender, losses>>

Older(age) == IF age < AgeCap THEN age + 1 ELSE age

\* Time passes, unless a publication or a delivery is due.
Tick ==
    /\ running => sincePublish < MaxPeriod
    /\ \A p \in net : p.age = MaxDelay => p.delivered
    /\ sincePublish' = IF running THEN sincePublish + 1 ELSE sincePublish
    /\ upAge' = Older(upAge)
    /\ net' = {[p EXCEPT !.age = @ + 1] : p \in {q \in net : q.age < MaxDelay}}
    /\ freshAge' = Older(freshAge)
    /\ UNCHANGED <<running, sequence, losses, initialized, lastSequence, replayed>>

Next ==
    \/ Publish \/ StopMiddle \/ StartMiddle
    \/ \E p \in net : Deliver(p)
    \/ Tick

Spec == Init /\ [][Next]_vars

-----------------------------------------------------------------------------
\* Whatever is lost, late, repeated or reordered, and however often MIDDLE
\* restarts, every datagram that refreshes the link was published after the
\* one that refreshed it before.
OnlyNewerRefreshes == ~replayed

\* The link is refreshed within OutageBound of the last time, or of MIDDLE's
\* start: a restarted MIDDLE is not locked out until its numbers catch up.
RestartRecovers == running => freshAge <= OutageBound \/ upAge <= OutageBound
=============================================================================
