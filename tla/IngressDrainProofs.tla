-------------------------- MODULE IngressDrainProofs --------------------------
(***************************************************************************)
(* Machine-checked proofs about IngressDrain, for every set of events,     *)
(* lanes, drains, processes and claim tokens, both lane policies and any   *)
(* bounds on attempts, failing writes, lost leases and resubmissions.      *)
(***************************************************************************)
EXTENDS IngressDrain, TLAPS

\* The channel has reported, or the drain has closed the claim by itself.
Closed(h) == h.over \/ h.guillotined \/ h.superseded

\* A claim is settled only when it is closed, an adoption that waits is being completed, and
\* the lease of a claim that is worked for is refreshed.
HandlerSound(h) ==
  /\ h.settle # "none" => Closed(h)
  /\ h.phase \in {"adopted", "settled"} => Closed(h)
  /\ h.call = "waiting" => h.settle = "complete"
  /\ h.active /\ ~h.guillotined /\ ~h.superseded => h.claimRefreshTimer

HandlersSound == \A t \in Live : HandlerSound(handler[t])

\* Only a pass that has claimed an event holds a token, which no handler has yet.
PassesSound ==
  \A d \in Drain :
    /\ pass[d].at = "claimed" => /\ pass[d].event \in Event /\ pass[d].token \in Token
                                 /\ handler[pass[d].token] = Nil
    /\ pass[d].at # "claimed" => pass[d].token = Nil

PassesApart ==
  \A c, d \in Drain : pass[c].token = pass[d].token => c = d \/ pass[c].token = Nil

\* Nothing runs for a drain that was not started.
NewDrainsIdle ==
  \A d \in Drain : drain[d] = "new" =>
    /\ pass[d].at = "idle"
    /\ \A t \in Live : handler[t].drain # d
    /\ \A e \in Event : row[e].status = "claimed" => row[e].owner # d

\* Who has the token of a claimed row works for that event and is its owner.
TokensMatch ==
  \A e \in Event : row[e].status = "claimed" =>
    /\ row[e].token \in Live =>
         handler[row[e].token].event = e /\ handler[row[e].token].drain = row[e].owner
    /\ \A d \in Drain : pass[d].token = row[e].token => pass[d].event = e /\ row[e].owner = d

\* d has claimed e by the token t and its lease has not run out.
Leased(d, e, t) ==
  row[e].status = "claimed" /\ row[e].token = t /\ row[e].owner = d /\ row[e].fresh

\* While no lease has run out, a drain that is up has the lease of what it works for.
LeasesKept ==
  lapses = 0 =>
    /\ \A t \in Live : Holds(t) => Leased(handler[t].drain, handler[t].event, t)
    /\ \A d \in Drain : pass[d].at = "claimed" /\ drain[d] = "up" =>
         Leased(d, pass[d].event, pass[d].token)

Core ==
  /\ Typed /\ RowsSound /\ HandlersSound /\ PassesSound /\ PassesApart /\ NewDrainsIdle
  /\ TokensMatch /\ LeasesKept /\ ClaimAttended /\ LaneSerialized /\ AdoptionIsDurable

-----------------------------------------------------------------------------
(* Steps that leave every claim with its holder *)

\* A pass goes on with what it has claimed.
PassKept(p, q) ==
  /\ q \in PassType /\ q.token = p.token
  /\ q.at = "claimed" <=> p.at = "claimed"
  /\ p.at = "claimed" => q.event = p.event
  /\ p.at = "idle" => q.at = "idle"

\* A handler goes on with its claim; only one that is inactive is forgotten.
HandlerKept(h, g) ==
  \/ g = Nil /\ ~h.active
  \/ /\ g \in HandlerType /\ HandlerSound(g)
     /\ g.event = h.event /\ g.drain = h.drain /\ g.active = h.active
     /\ g.occupiesLane => h.occupiesLane
     /\ h.guillotined => g.guillotined
     /\ h.superseded => g.superseded

\* A row stays in the same hands, and its lease with them.
RowKept(e) ==
  /\ row'[e] \in RowType /\ RowSound(row'[e])
  /\ row'[e].status = "claimed" <=> row[e].status = "claimed"
  /\ row[e].status = "claimed" => row'[e].token = row[e].token /\ row'[e].owner = row[e].owner
  /\ row[e].status = "completed" => row'[e].status = "completed"
  /\ lapses' = 0 /\ row[e].fresh /\ Tended(e) => row'[e].fresh

Quiet ==
  /\ row' = [e \in Event |-> row'[e]] /\ \A e \in Event : RowKept(e)
  /\ handler' = [t \in Token |-> handler'[t]]
  /\ \A t \in Token : \/ handler'[t] = handler[t]
                      \/ t \in Live /\ HandlerKept(handler[t], handler'[t])
  /\ pass' = [d \in Drain |-> pass'[d]] /\ \A d \in Drain : PassKept(pass[d], pass'[d])
  /\ faults' \in 0 .. MaxFaults /\ lapses' \in 0 .. MaxLapses /\ resubmits' \in 0 .. MaxResubmits
  /\ lapses' = 0 => lapses = 0
  /\ UNCHANGED <<drain, adoptions, stray>>

\* A live handler has the shape of one.
LEMMA LiveType ==
  ASSUME Typed, NEW t \in Live
  PROVE  t \in Token /\ handler[t] \in HandlerType /\ handler[t].event \in Event
         /\ handler[t].drain \in Drain
  BY DEF Live, Typed, HandlerType

\* What is worked for has its refresh timer, so that its row is tended.
LEMMA HeldIsTended ==
  ASSUME Core, NEW t \in Live, Holds(t), Leased(handler[t].drain, handler[t].event, t)
  PROVE  Tended(handler[t].event)
<1>1. HandlerSound(handler[t])
  BY DEF Core, HandlersSound
<1> QED BY <1>1 DEF HandlerSound, Holds, Tended, Leased

\* Such a step keeps the invariant.
LEMMA QuietKeepsCore ==
  ASSUME Core, Quiet
  PROVE  Core'
<1>0. Typed
  BY DEF Core
<1>1. UNCHANGED <<drain, adoptions, stray>>
  BY DEF Quiet
<1>2. \A d \in Drain : /\ pass'[d] \in PassType /\ pass'[d].token = pass[d].token
                       /\ pass'[d].at = "claimed" <=> pass[d].at = "claimed"
                       /\ pass[d].at = "claimed" => pass'[d].event = pass[d].event
                       /\ pass[d].at = "idle" => pass'[d].at = "idle"
  BY DEF Quiet, PassKept
<1>3. \A t \in Token : t \in Live' =>
        /\ t \in Live /\ handler'[t] \in HandlerType /\ HandlerSound(handler'[t])
        /\ handler'[t].event = handler[t].event /\ handler'[t].drain = handler[t].drain
        /\ handler'[t].active = handler[t].active
        /\ handler'[t].occupiesLane => handler[t].occupiesLane
        /\ handler[t].guillotined => handler'[t].guillotined
        /\ handler[t].superseded => handler'[t].superseded
  <2> SUFFICES ASSUME NEW t \in Token, t \in Live'
      PROVE
        /\ t \in Live /\ handler'[t] \in HandlerType /\ HandlerSound(handler'[t])
        /\ handler'[t].event = handler[t].event /\ handler'[t].drain = handler[t].drain
        /\ handler'[t].active = handler[t].active
        /\ handler'[t].occupiesLane => handler[t].occupiesLane
        /\ handler[t].guillotined => handler'[t].guillotined
        /\ handler[t].superseded => handler'[t].superseded
    OBVIOUS
  <2>0. handler'[t] # Nil
    BY DEF Live
  <2>1. CASE handler'[t] = handler[t]
    <3>1. t \in Live
      BY <2>0, <2>1 DEF Live
    <3> QED BY <1>0, <2>1, <3>1, LiveType DEF Core, HandlersSound
  <2>2. CASE handler'[t] # handler[t]
    BY <2>0, <2>2 DEF Quiet, HandlerKept
  <2> QED BY <2>1, <2>2
<1>4. \A t \in Live : handler[t].active => t \in Live'
  <2> SUFFICES ASSUME NEW t \in Live, handler[t].active PROVE handler'[t] # Nil
    BY DEF Live
  <2>1. t \in Token /\ handler[t] # Nil
    BY DEF Live
  <2> QED BY <2>1, NoHandlerAssumption DEF Quiet, HandlerKept
<1>5. \A e \in Event :
        /\ row'[e] \in RowType /\ RowSound(row'[e])
        /\ row'[e].status = "claimed" <=> row[e].status = "claimed"
        /\ row[e].status = "claimed" => row'[e].token = row[e].token /\ row'[e].owner = row[e].owner
        /\ row[e].status = "completed" => row'[e].status = "completed"
        /\ lapses' = 0 /\ row[e].fresh /\ Tended(e) => row'[e].fresh
  BY DEF Quiet, RowKept
<1>6. Typed'
  <2>1. row' \in [Event -> RowType]
    BY <1>5 DEF Quiet
  <2>2. pass' \in [Drain -> PassType]
    BY <1>2 DEF Quiet
  <2>3. handler' \in [Token -> HandlerType \cup {Nil}]
    <3>1. \A t \in Token : handler'[t] \in HandlerType \cup {Nil}
      BY <1>3 DEF Live
    <3> QED BY <3>1 DEF Quiet
  <2> QED BY <1>0, <1>1, <2>1, <2>2, <2>3 DEF Typed, Quiet
<1>7. RowsSound' /\ HandlersSound'
  <2>1. RowsSound'
    BY <1>5 DEF RowsSound
  <2>2. HandlersSound'
    BY <1>3 DEF HandlersSound, Live
  <2> QED BY <2>1, <2>2
<1>8. PassesSound'
  <2> SUFFICES ASSUME NEW d \in Drain
               PROVE  /\ pass'[d].at = "claimed" => /\ pass'[d].event \in Event /\ pass'[d].token \in Token
                                                    /\ handler'[pass'[d].token] = Nil
                      /\ pass'[d].at # "claimed" => pass'[d].token = Nil
    BY DEF PassesSound
  <2>1. /\ pass[d].at = "claimed" => /\ pass[d].event \in Event /\ pass[d].token \in Token
                                     /\ handler[pass[d].token] = Nil
        /\ pass[d].at # "claimed" => pass[d].token = Nil
    BY DEF Core, PassesSound
  <2>2. \A t \in Token : handler[t] = Nil => handler'[t] = Nil
    BY <1>3 DEF Live
  <2> QED BY <1>2, <2>1, <2>2
<1>9. PassesApart'
  BY <1>2 DEF Core, PassesApart
<1>10. NewDrainsIdle'
  <2> SUFFICES ASSUME NEW d \in Drain, drain'[d] = "new"
               PROVE  /\ pass'[d].at = "idle"
                      /\ \A t \in Live' : handler'[t].drain # d
                      /\ \A e \in Event : row'[e].status = "claimed" => row'[e].owner # d
    BY DEF NewDrainsIdle
  <2>1. /\ pass[d].at = "idle"
        /\ \A t \in Live : handler[t].drain # d
        /\ \A e \in Event : row[e].status = "claimed" => row[e].owner # d
    BY <1>1 DEF Core, NewDrainsIdle
  <2>2. \A t \in Live' : t \in Token
    BY DEF Live
  <2> QED BY <1>2, <1>3, <1>5, <2>1, <2>2
<1>11. TokensMatch'
  <2> SUFFICES ASSUME NEW e \in Event, row'[e].status = "claimed"
               PROVE  /\ row'[e].token \in Live' =>
                           /\ handler'[row'[e].token].event = e
                           /\ handler'[row'[e].token].drain = row'[e].owner
                      /\ \A d \in Drain : pass'[d].token = row'[e].token =>
                           pass'[d].event = e /\ row'[e].owner = d
    BY DEF TokensMatch
  <2>1. row[e].status = "claimed" /\ row'[e].token = row[e].token /\ row'[e].owner = row[e].owner
    BY <1>5
  <2>2. row[e].token \in Token
    BY <2>1 DEF Core, RowsSound, RowSound
  <2>3. row'[e].token \in Live' =>
          handler'[row'[e].token].event = e /\ handler'[row'[e].token].drain = row'[e].owner
    BY <1>3, <2>1, <2>2 DEF Core, TokensMatch
  <2>4. ASSUME NEW d \in Drain, pass'[d].token = row'[e].token
        PROVE  pass'[d].event = e /\ row'[e].owner = d
    <3>1. pass[d].token = row[e].token /\ pass[d].token # Nil
      BY <1>2, <2>1, <2>2, <2>4, NilAssumption
    <3>2. pass[d].at = "claimed"
      BY <3>1 DEF Core, PassesSound
    <3>3. pass[d].event = e /\ row[e].owner = d
      BY <2>1, <3>1 DEF Core, TokensMatch
    <3> QED BY <1>2, <2>1, <3>2, <3>3
  <2> QED BY <2>3, <2>4
<1>12. LeasesKept'
  <2> SUFFICES ASSUME lapses' = 0
               PROVE  /\ \A t \in Live' : Holds(t)' =>
                           Leased(handler[t].drain, handler[t].event, t)'
                      /\ \A d \in Drain : pass'[d].at = "claimed" /\ drain'[d] = "up" =>
                           Leased(d, pass[d].event, pass[d].token)'
    BY DEF LeasesKept
  <2>0. lapses = 0
    BY DEF Quiet
  <2>1. ASSUME NEW t \in Live', Holds(t)'
        PROVE  Leased(handler[t].drain, handler[t].event, t)'
    <3>0. t \in Token
      BY DEF Live
    <3>1. t \in Live /\ Holds(t)
      BY <1>1, <1>3, <2>1, <3>0 DEF Holds
    <3>2. Leased(handler[t].drain, handler[t].event, t)
      BY <2>0, <3>1 DEF Core, LeasesKept
    <3>3. Tended(handler[t].event) /\ handler[t].event \in Event
      BY <1>0, <3>1, <3>2, HeldIsTended, LiveType
    <3> DEFINE e == handler[t].event
    <3>4. handler'[t].event = e /\ handler'[t].drain = handler[t].drain
      BY <1>3, <3>0
    <3> QED BY <1>5, <3>2, <3>3, <3>4 DEF Leased
  <2>2. ASSUME NEW d \in Drain, pass'[d].at = "claimed", drain'[d] = "up"
        PROVE  Leased(d, pass[d].event, pass[d].token)'
    <3>1. pass[d].at = "claimed" /\ drain[d] = "up" /\ pass'[d].event = pass[d].event
          /\ pass'[d].token = pass[d].token
      BY <1>1, <1>2, <2>2
    <3>2. Leased(d, pass[d].event, pass[d].token) /\ pass[d].event \in Event
      BY <2>0, <3>1 DEF Core, LeasesKept, PassesSound
    <3>3. Tended(pass[d].event)
      BY <3>2 DEF Tended, Leased
    <3> QED BY <1>5, <3>1, <3>2, <3>3 DEF Leased
  <2> QED BY <2>1, <2>2
<1>13. ClaimAttended'
  <2> SUFFICES ASSUME NEW e \in Event, row'[e].status = "claimed", drain'[row'[e].owner] = "up"
               PROVE  \/ pass'[row'[e].owner].token = row'[e].token
                      \/ row'[e].token \in Live' /\ handler'[row'[e].token].active
                      \/ e \in stray'
    BY DEF ClaimAttended
  <2>1. /\ row[e].status = "claimed" /\ row'[e].token = row[e].token
        /\ row'[e].owner = row[e].owner
    BY <1>5
  <2>2. row[e].owner \in Drain /\ row[e].token \in Token
    BY <2>1 DEF Core, RowsSound, RowSound
  <2>3. \/ pass[row[e].owner].token = row[e].token
        \/ row[e].token \in Live /\ handler[row[e].token].active
        \/ e \in stray
    BY <1>1, <2>1 DEF Core, ClaimAttended
  <2> QED BY <1>1, <1>2, <1>3, <1>4, <2>1, <2>2, <2>3
<1>14. LaneSerialized'
  <2> SUFFICES ASSUME NEW t \in Live', NEW u \in Live',
                      handler'[t].active, handler'[t].occupiesLane,
                      handler'[u].active, handler'[u].occupiesLane,
                      handler'[t].drain = handler'[u].drain,
                      LaneOf[handler'[t].event] = LaneOf[handler'[u].event]
               PROVE  t = u
    BY DEF LaneSerialized
  <2>1. t \in Token /\ u \in Token
    BY DEF Live
  <2>2. /\ t \in Live /\ u \in Live /\ handler[t].active /\ handler[t].occupiesLane
        /\ handler[u].active /\ handler[u].occupiesLane
        /\ handler[t].drain = handler[u].drain
        /\ LaneOf[handler[t].event] = LaneOf[handler[u].event]
    BY <1>3, <2>1
  <2> QED BY <2>2 DEF Core, LaneSerialized
<1>15. AdoptionIsDurable'
  BY <1>1, <1>5 DEF Core, AdoptionIsDurable
<1> QED
  BY <1>6, <1>7, <1>8, <1>9, <1>10, <1>11, <1>12, <1>13, <1>14, <1>15 DEF Core

\* What is left alone is kept.
LEMMA SameRow ==
  ASSUME Core, NEW e \in Event, row'[e] = row[e]
  PROVE  RowKept(e)
<1>1. row[e] \in RowType /\ RowSound(row[e])
  BY DEF Core, Typed, RowsSound
<1> QED BY <1>1 DEF RowKept

\* The same of a pass.
LEMMA SamePass ==
  ASSUME Core, NEW d \in Drain
  PROVE  PassKept(pass[d], pass[d])
<1>1. pass[d] \in PassType
  BY DEF Core, Typed
<1> QED BY <1>1 DEF PassKept

\* One handler moves.
LEMMA QuietHandler ==
  ASSUME Core, NEW t \in Live, NEW g, HandlerKept(handler[t], g),
         handler' = [handler EXCEPT ![t] = g], faults' \in 0 .. MaxFaults,
         UNCHANGED <<row, drain, pass, adoptions, lapses, resubmits, stray>>
  PROVE  Core'
<1>0. Typed /\ t \in Token
  BY DEF Core, Live
<1>1. \A e \in Event : RowKept(e)
  BY SameRow
<1>2. \A d \in Drain : PassKept(pass[d], pass'[d])
  BY SamePass
<1>3. handler'[t] = g /\ \A u \in Token : u # t => handler'[u] = handler[u]
  BY <1>0 DEF Typed
<1>4. /\ row' = [e \in Event |-> row'[e]] /\ handler' = [u \in Token |-> handler'[u]]
      /\ pass' = [d \in Drain |-> pass'[d]]
  BY <1>0 DEF Typed
<1>5. Quiet
  BY <1>0, <1>1, <1>2, <1>3, <1>4 DEF Quiet, Typed
<1> QED BY <1>5, QuietKeepsCore

\* One row moves.
LEMMA QuietRow ==
  ASSUME Core, NEW e \in Event, NEW r, r \in RowType, RowSound(r),
         r.status = "claimed" <=> row[e].status = "claimed",
         row[e].status = "claimed" => r.token = row[e].token /\ r.owner = row[e].owner,
         row[e].status = "completed" => r.status = "completed",
         lapses' = 0 /\ row[e].fresh /\ Tended(e) => r.fresh,
         lapses' \in 0 .. MaxLapses, lapses' = 0 => lapses = 0, resubmits' \in 0 .. MaxResubmits,
         row' = [row EXCEPT ![e] = r], UNCHANGED <<drain, pass, handler, adoptions, faults, stray>>
  PROVE  Core'
<1>0. Typed
  BY DEF Core
<1>1. row'[e] = r /\ \A f \in Event : f # e => row'[f] = row[f]
  BY <1>0 DEF Typed
<1>2. \A f \in Event : RowKept(f)
  <2> SUFFICES ASSUME NEW f \in Event PROVE RowKept(f)
    OBVIOUS
  <2>1. CASE f = e
    BY <1>1, <2>1 DEF RowKept
  <2>2. CASE f # e
    BY <1>1, <2>2, SameRow
  <2> QED BY <2>1, <2>2
<1>3. \A d \in Drain : PassKept(pass[d], pass'[d])
  BY SamePass
<1>4. /\ row' = [f \in Event |-> row'[f]] /\ handler' = [u \in Token |-> handler'[u]]
      /\ pass' = [d \in Drain |-> pass'[d]]
  BY <1>0 DEF Typed
<1>5. Quiet
  BY <1>0, <1>2, <1>3, <1>4 DEF Quiet, Typed
<1> QED BY <1>5, QuietKeepsCore

\* One pass moves.
LEMMA QuietPass ==
  ASSUME Core, NEW d \in Drain, NEW q, PassKept(pass[d], q), pass' = [pass EXCEPT ![d] = q],
         UNCHANGED <<row, drain, handler, adoptions, history>>
  PROVE  Core'
<1>0. Typed
  BY DEF Core
<1>1. \A e \in Event : RowKept(e)
  BY SameRow
<1>2. \A c \in Drain : PassKept(pass[c], pass'[c])
  <2> SUFFICES ASSUME NEW c \in Drain PROVE PassKept(pass[c], pass'[c])
    OBVIOUS
  <2>1. c = d => pass'[c] = q
    BY <1>0 DEF Typed
  <2>2. c # d => pass'[c] = pass[c]
    BY <1>0 DEF Typed
  <2> QED BY <2>1, <2>2, SamePass
<1>3. /\ row' = [f \in Event |-> row'[f]] /\ handler' = [u \in Token |-> handler'[u]]
      /\ pass' = [c \in Drain |-> pass'[c]]
  BY <1>0 DEF Typed
<1>4. Quiet
  BY <1>0, <1>1, <1>2, <1>3 DEF Quiet, Typed, history
<1> QED BY <1>4, QuietKeepsCore

-----------------------------------------------------------------------------
(* Rows *)

\* The empty row has its shape.
LEMMA AbsentRowType ==
  /\ AbsentRow \in RowType /\ RowSound(AbsentRow) /\ AbsentRow.status = "absent"
  /\ \A s \in {"pending", "completed"} :
       /\ [AbsentRow EXCEPT !.status = s] \in RowType
       /\ [AbsentRow EXCEPT !.status = s].status = s
       /\ RowSound([AbsentRow EXCEPT !.status = s])
<1>1. AbsentRow \in RowType
  BY BoundAssumption DEF AbsentRow, RowType
<1>2. AbsentRow.status = "absent" /\ AbsentRow.token = Nil /\ AbsentRow.owner = Nil /\ ~AbsentRow.fresh
  BY DEF AbsentRow
<1>3. ASSUME NEW s \in {"pending", "completed"}
      PROVE  /\ [AbsentRow EXCEPT !.status = s] \in RowType
             /\ [AbsentRow EXCEPT !.status = s].status = s
             /\ RowSound([AbsentRow EXCEPT !.status = s])
  <2> DEFINE r == [AbsentRow EXCEPT !.status = s]
  <2>1. r \in RowType /\ r.status = s /\ r.token = AbsentRow.token
        /\ r.owner = AbsentRow.owner /\ r.fresh = AbsentRow.fresh
    BY <1>1 DEF RowType
  <2> HIDE DEF r
  <2>2. RowSound(r)
    BY <1>2, <2>1 DEF RowSound
  <2> QED BY <2>1, <2>2 DEF r
<1> QED BY <1>1, <1>2, <1>3 DEF RowSound

\* An event arrives, or arrives again.
LEMMA EnqueueOK ==
  ASSUME Core, NEW e \in Event, Enqueue(e)
  PROVE  Core'
<1> DEFINE r == Enqueued(e)
<1>0. Typed /\ row[e] \in RowType /\ RowSound(row[e])
  BY DEF Core, Typed, RowsSound
<1>1. /\ r \in RowType /\ RowSound(r)
      /\ r = row[e] \/ (row[e].status = "absent" /\ r.status = "pending")
  <2>1. CASE row[e].status = "absent"
    BY <2>1, AbsentRowType DEF Enqueued
  <2>2. CASE row[e].status # "absent"
    BY <1>0, <2>2 DEF Enqueued
  <2> QED BY <2>1, <2>2
<1>2. row[e].fresh => r.fresh
  BY <1>0, <1>1 DEF RowSound
<1>3. row' = [row EXCEPT ![e] = r] /\ UNCHANGED <<drain, pass, handler, adoptions, faults, lapses, resubmits, stray>>
  BY DEF Enqueue, history
<1>4. lapses' \in 0 .. MaxLapses /\ resubmits' \in 0 .. MaxResubmits
  BY <1>0, <1>3 DEF Typed
<1> HIDE DEF r
<1> QED BY <1>1, <1>2, <1>3, <1>4, QuietRow

\* An operator resubmits a dead letter.
LEMMA ResubmitOK ==
  ASSUME Core, NEW e \in Event, Resubmit(e)
  PROVE  Core'
<1> DEFINE r == [AbsentRow EXCEPT !.status = "pending"]
<1>0. Typed /\ row[e] \in RowType /\ RowSound(row[e])
  BY DEF Core, Typed, RowsSound
<1>1. r \in RowType /\ RowSound(r) /\ r.status = "pending"
  BY AbsentRowType
<1>2. /\ row[e].status = "failed" /\ row' = [row EXCEPT ![e] = r]
      /\ resubmits < MaxResubmits /\ resubmits' = resubmits + 1
      /\ UNCHANGED <<drain, pass, handler, adoptions, faults, lapses, stray>>
  BY DEF Resubmit
<1>3. lapses' \in 0 .. MaxLapses /\ resubmits' \in 0 .. MaxResubmits
  BY <1>0, <1>2, BoundAssumption DEF Typed
<1>4. ~row[e].fresh
  BY <1>0, <1>2 DEF RowSound
<1> HIDE DEF r
<1> QED BY <1>1, <1>2, <1>3, <1>4, QuietRow

\* A backoff ends, an event grows old, a lease runs out or is refreshed: one flag is turned.
LEMMA FlagOK ==
  ASSUME Core, NEW e \in Event, NEW r, NEW b \in BOOLEAN,
         \/ r = [row[e] EXCEPT !.delayed = b]
         \/ r = [row[e] EXCEPT !.aged = b]
         \/ r = [row[e] EXCEPT !.fresh = b] /\ row[e].status = "claimed"
              /\ (lapses' = 0 /\ Tended(e) => b),
         lapses' \in 0 .. MaxLapses, lapses' = 0 => lapses = 0,
         row' = [row EXCEPT ![e] = r], UNCHANGED <<drain, pass, handler, adoptions, faults, resubmits, stray>>
  PROVE  Core'
<1>0. Typed /\ row[e] \in RowType /\ RowSound(row[e])
  BY DEF Core, Typed, RowsSound
<1>1. /\ r \in RowType /\ r.status = row[e].status /\ r.token = row[e].token
      /\ r.owner = row[e].owner
      /\ r.fresh = row[e].fresh \/ (row[e].status = "claimed" /\ (lapses' = 0 /\ Tended(e) => r.fresh))
  BY <1>0 DEF RowType
<1>2. RowSound(r)
  BY <1>0, <1>1 DEF RowSound
<1>3. resubmits' \in 0 .. MaxResubmits
  BY <1>0 DEF Typed
<1> QED BY <1>1, <1>2, <1>3, QuietRow

\* A backoff ends.
LEMMA BackoffOK ==
  ASSUME Core, NEW e \in Event, BackoffElapses(e)
  PROVE  Core'
<1>0. PICK b \in BOOLEAN : b = FALSE
  OBVIOUS
<1>1. row' = [row EXCEPT ![e] = [row[e] EXCEPT !.delayed = b]]
  BY <1>0 DEF BackoffElapses, Core, Typed
<1>2. lapses' \in 0 .. MaxLapses /\ lapses' = lapses
      /\ UNCHANGED <<drain, pass, handler, adoptions, faults, resubmits, stray>>
  BY DEF BackoffElapses, history, Core, Typed
<1> QED BY <1>1, <1>2, FlagOK

\* An event grows old.
LEMMA AgeOK ==
  ASSUME Core, NEW e \in Event, EventAges(e)
  PROVE  Core'
<1>0. PICK b \in BOOLEAN : b = TRUE
  OBVIOUS
<1>1. row' = [row EXCEPT ![e] = [row[e] EXCEPT !.aged = b]]
  BY <1>0 DEF EventAges, Core, Typed
<1>2. lapses' \in 0 .. MaxLapses /\ lapses' = lapses
      /\ UNCHANGED <<drain, pass, handler, adoptions, faults, resubmits, stray>>
  BY DEF EventAges, history, Core, Typed
<1> QED BY <1>1, <1>2, FlagOK

\* A lease runs out; one that is tended is counted.
LEMMA LapseOK ==
  ASSUME Core, NEW e \in Event, LeaseLapses(e)
  PROVE  Core'
<1>0. PICK b \in BOOLEAN : b = FALSE
  OBVIOUS
<1>1. row' = [row EXCEPT ![e] = [row[e] EXCEPT !.fresh = b]]
  BY <1>0 DEF LeaseLapses, Core, Typed
<1>2. /\ row[e].fresh /\ (Tended(e) => lapses < MaxLapses)
      /\ lapses' = IF Tended(e) THEN lapses + 1 ELSE lapses
      /\ UNCHANGED <<drain, pass, handler, adoptions, faults, resubmits, stray>>
  BY DEF LeaseLapses
<1>3. /\ lapses' \in 0 .. MaxLapses /\ (lapses' = 0 => lapses = 0) /\ (Tended(e) => lapses' # 0)
  BY <1>2, BoundAssumption DEF Core, Typed
<1>4. row[e].status = "claimed"
  BY <1>2 DEF Core, RowsSound, RowSound
<1> QED BY <1>1, <1>2, <1>3, <1>4, FlagOK

-----------------------------------------------------------------------------
(* Handlers *)

\* g is h but for its phase, its timers and how far its settlement is.
Alike(h, g) ==
  /\ g \in HandlerType
  /\ g.event = h.event /\ g.drain = h.drain /\ g.active = h.active
  /\ g.occupiesLane = h.occupiesLane
  /\ g.claimRefreshTimer = h.claimRefreshTimer
  /\ h.over => g.over
  /\ h.guillotined => g.guillotined
  /\ h.superseded => g.superseded

\* The state of a claim that is not forgotten is that of a sound handler.
LEMMA AlikeKept ==
  ASSUME NEW h, HandlerSound(h), NEW g, Alike(h, g),
         g.settle # "none" => Closed(g),
         g.phase \in {"adopted", "settled"} => Closed(g),
         g.call = "waiting" => g.settle = "complete"
  PROVE  HandlerKept(h, g) /\ HandlerKept(h, Kept(g))
<1>1. HandlerKept(h, g)
  BY DEF HandlerKept, HandlerSound, Alike
<1>2. Kept(g) = g \/ (Kept(g) = Nil /\ ~h.active)
  BY DEF Kept, Alike
<1> QED BY <1>1, <1>2 DEF HandlerKept

\* The channel has reported.
LEMMA OverAlike ==
  ASSUME NEW h \in HandlerType
  PROVE  LET g == Over(h) IN
         /\ Alike(h, g) /\ g.over /\ g.guillotined = h.guillotined /\ g.superseded = h.superseded
         /\ g.phase = h.phase /\ g.call = h.call /\ g.settle = h.settle
  BY DEF Over, Alike, HandlerType

\* The watchdog is disarmed.
LEMMA NoStallAlike ==
  ASSUME NEW h \in HandlerType
  PROVE  LET g == NoStall(h) IN
         /\ Alike(h, g) /\ g.over = h.over /\ g.guillotined = h.guillotined
         /\ g.superseded = h.superseded
         /\ g.phase = h.phase /\ g.call = h.call /\ g.settle = h.settle
  BY DEF NoStall, Alike, HandlerType

\* A settlement begins unless there is one.
LEMMA SettleAlike ==
  ASSUME NEW h \in HandlerType, NEW kind \in {"complete", "release", "fail"}
  PROVE  LET g == Settle(h, kind) IN
         /\ Alike(h, g) /\ g.over = h.over /\ g.guillotined = h.guillotined
         /\ g.superseded = h.superseded /\ g.phase = h.phase /\ g.call = h.call
         /\ g.settle = IF h.phase = "settled" \/ h.settle # "none" THEN h.settle ELSE kind
<1>1. CASE h.phase = "settled" \/ h.settle # "none"
  BY <1>1 DEF Settle, Alike
<1>2. CASE ~(h.phase = "settled" \/ h.settle # "none")
  <2> DEFINE g == Settle(h, kind)
  <2>1. g = [h EXCEPT !.settle = kind, !.tries = 0]
    BY <1>2 DEF Settle
  <2> HIDE DEF g
  <2>2. 0 \in 0 .. WriteAttempts
    BY BoundAssumption
  <2>3. /\ Alike(h, g) /\ g.over = h.over /\ g.guillotined = h.guillotined
        /\ g.superseded = h.superseded /\ g.phase = h.phase /\ g.call = h.call
        /\ g.settle = kind
    BY <2>1, <2>2 DEF Alike, HandlerType
  <2> QED BY <1>2, <2>3 DEF g
<1> QED BY <1>1, <1>2

\* Likeness goes on.
LEMMA AlikeTwice ==
  ASSUME NEW h, NEW g, NEW f, Alike(h, g), Alike(g, f)
  PROVE  Alike(h, f)
  BY DEF Alike

\* A settlement that is given up is not waited for.
LEMMA GivesUpAlike ==
  ASSUME NEW h \in HandlerType
  PROVE  LET g == GivesUp(h) IN
         /\ Alike(h, g) /\ g.phase = h.phase /\ g.settle = "none" /\ g.call # "waiting"
         /\ g.call = "done" => h.call = "done"
<1> DEFINE c == IF h.call = "waiting" THEN "lost" ELSE h.call
           g == GivesUp(h)
<1>1. g = [h EXCEPT !.settle = "none", !.tries = 0, !.call = c]
  BY DEF GivesUp
<1>2. c \in {"none", "lost", "done"} /\ 0 \in 0 .. WriteAttempts /\ (c = "done" => h.call = "done")
  BY BoundAssumption DEF HandlerType
<1> HIDE DEF c, g
<1>3. /\ g \in HandlerType /\ g.event = h.event /\ g.drain = h.drain /\ g.active = h.active
      /\ g.occupiesLane = h.occupiesLane /\ g.claimRefreshTimer = h.claimRefreshTimer
      /\ g.over = h.over /\ g.guillotined = h.guillotined /\ g.superseded = h.superseded
      /\ g.phase = h.phase /\ g.settle = "none" /\ g.call = c
  BY <1>1, <1>2 DEF HandlerType
<1> QED BY <1>2, <1>3 DEF Alike, g

\* A claim before its adoption is not being settled while the channel has it.
LEMMA NotYetSettling ==
  ASSUME NEW h, HandlerSound(h), ~h.over, PreAdoption(h)
  PROVE  h.settle = "none"
  BY DEF HandlerSound, Closed, PreAdoption

\* The step of a claim whose outcome is reported, and which is settled by it.
LEMMA SettledReport ==
  ASSUME NEW h \in HandlerType, HandlerSound(h), ~h.over, PreAdoption(h),
         NEW kind \in {"complete", "release", "fail"}
  PROVE  HandlerKept(h, Settle(NoStall(Over(h)), kind))
<1> DEFINE o == Over(h)
           n == NoStall(o)
           g == Settle(n, kind)
<1>1. Alike(h, o) /\ o.over /\ o \in HandlerType
      /\ o.phase = h.phase /\ o.call = h.call /\ o.settle = h.settle
  BY OverAlike DEF Alike
<1> HIDE DEF o
<1>2. Alike(o, n) /\ n.over = o.over /\ n \in HandlerType
      /\ n.phase = o.phase /\ n.call = o.call /\ n.settle = o.settle
  BY <1>1, NoStallAlike DEF Alike
<1> HIDE DEF n
<1>3. Alike(n, g) /\ g.over = n.over /\ g.phase = n.phase /\ g.call = n.call
  BY <1>2, SettleAlike
<1>4. h.settle = "none" /\ h.call # "waiting"
  BY NotYetSettling DEF HandlerSound
<1> HIDE DEF g
<1>5. Alike(h, g) /\ g.over /\ g.call # "waiting"
  BY <1>1, <1>2, <1>3, <1>4, AlikeTwice
<1>6. HandlerKept(h, g)
  BY <1>5, AlikeKept DEF Closed
<1> QED BY <1>6 DEF g, n, o

\* The step of a claim whose outcome is reported and changes nothing more.
LEMMA OverKept ==
  ASSUME NEW h \in HandlerType, HandlerSound(h)
  PROVE  HandlerKept(h, Kept(Over(h)))
<1> DEFINE g == Over(h)
<1>1. /\ Alike(h, g) /\ g.over /\ g.phase = h.phase /\ g.call = h.call /\ g.settle = h.settle
  BY OverAlike
<1> HIDE DEF g
<1>2. HandlerKept(h, Kept(g))
  BY <1>1, AlikeKept DEF Closed, HandlerSound
<1> QED BY <1>2 DEF g

\* onAdopted: while the channel has the claim, success is never reported at once.
LEMMA AdoptingKept ==
  ASSUME NEW h \in HandlerType, HandlerSound(h), ~h.over
  PROVE  /\ HandlerKept(h, Kept(Adopting(h)))
         /\ Adopting(h).call # "done"
         /\ Adopting(h) \in HandlerType
<1> DEFINE o == Over(h)
           a == Adopting(h)
<1>1. /\ Alike(h, o) /\ o.over /\ o \in HandlerType
      /\ o.guillotined = h.guillotined /\ o.superseded = h.superseded
      /\ o.phase = h.phase /\ o.call = h.call /\ o.settle = h.settle
  BY OverAlike DEF Alike
<1>2. CASE h.guillotined \/ h.superseded
  <2>1. a = [o EXCEPT !.call = "lost"]
    BY <1>2 DEF Adopting
  <2> HIDE DEF o, a
  <2>2. /\ Alike(o, a) /\ a.call = "lost" /\ a.over /\ a.phase = o.phase /\ a.settle = o.settle
    BY <1>1, <2>1 DEF Alike, HandlerType
  <2>3. Alike(h, a)
    BY <1>1, <2>2, AlikeTwice
  <2>4. HandlerKept(h, Kept(a))
    BY <2>2, <2>3, AlikeKept DEF Closed
  <2> QED BY <2>2, <2>4 DEF a, Alike
<1>3. CASE ~(h.guillotined \/ h.superseded)
  <2>1. h.settle = "none" /\ h.phase \notin {"adopted", "settled"}
    BY <1>3 DEF HandlerSound, Closed
  <2> DEFINE n == NoStall(o)
             b == [n EXCEPT !.phase = "adopted", !.call = "waiting"]
  <2>2. a = Settle(b, "complete")
    BY <1>3, <2>1 DEF Adopting
  <2> HIDE DEF o, a
  <2>3. Alike(o, n) /\ n.over = o.over /\ n.settle = o.settle /\ n \in HandlerType
    BY <1>1, NoStallAlike DEF Alike
  <2> HIDE DEF n
  <2>4. Alike(n, b) /\ b.over = n.over /\ b.settle = n.settle /\ b \in HandlerType
        /\ b.phase = "adopted" /\ b.call = "waiting"
    BY <2>3 DEF Alike, HandlerType
  <2> HIDE DEF b
  <2>5. Alike(b, a) /\ a.over = b.over /\ a.settle = "complete" /\ a.call = "waiting"
    <3>1. b.settle = "none" /\ b.phase # "settled"
      BY <1>1, <2>1, <2>3, <2>4
    <3>2. PICK kind \in {"complete", "release", "fail"} : kind = "complete"
      OBVIOUS
    <3>3. a = Settle(b, kind)
      BY <2>2, <3>2
    <3>4. Alike(b, a) /\ a.over = b.over /\ a.call = b.call
          /\ a.settle = IF b.phase = "settled" \/ b.settle # "none" THEN b.settle ELSE kind
      BY <2>4, <3>3, SettleAlike
    <3> QED BY <2>4, <3>1, <3>2, <3>4
  <2>6. Alike(h, a) /\ a.over
    BY <1>1, <2>3, <2>4, <2>5, AlikeTwice
  <2>7. HandlerKept(h, Kept(a))
    BY <2>5, <2>6, AlikeKept DEF Closed
  <2> QED BY <2>5, <2>7 DEF a, Alike
<1> QED BY <1>2, <1>3

\* A live handler is sound.
LEMMA LiveSound ==
  ASSUME Core, NEW t \in Live
  PROVE  /\ t \in Token /\ handler[t] \in HandlerType /\ HandlerSound(handler[t])
         /\ handler[t].event \in Event /\ handler[t].drain \in Drain
         /\ faults \in 0 .. MaxFaults
  BY LiveType DEF Core, HandlersSound, Typed

\* A deferral gives the lane up, or holds it.
LEMMA OnDeferredOK ==
  ASSUME Core, NEW t \in Token, OnDeferred(t)
  PROVE  Core'
<1> DEFINE h == handler[t]
           b == h.occupiesLane /\ HoldsLane
           g == [h EXCEPT !.phase = "deferred", !.occupiesLane = b]
<1>1. t \in Live /\ ~h.over /\ h.phase = "dispatching"
  BY DEF OnDeferred, Reports
<1>2. h \in HandlerType /\ HandlerSound(h) /\ faults \in 0 .. MaxFaults
  BY <1>1, LiveSound
<1>3. handler' = [handler EXCEPT ![t] = g]
  BY <1>1, <1>2 DEF OnDeferred, Core, Typed
<1>4. UNCHANGED <<row, drain, pass, adoptions, faults, lapses, resubmits, stray>>
  BY DEF OnDeferred, history
<1>5. b \in BOOLEAN /\ (b => h.occupiesLane)
  BY <1>2 DEF HandlerType
<1>6. /\ g \in HandlerType /\ g.event = h.event /\ g.drain = h.drain /\ g.active = h.active
      /\ g.occupiesLane = b /\ g.claimRefreshTimer = h.claimRefreshTimer
      /\ g.over = h.over /\ g.guillotined = h.guillotined /\ g.superseded = h.superseded
      /\ g.phase = "deferred" /\ g.settle = h.settle /\ g.call = h.call
  <2> HIDE DEF b, h
  <2> QED BY <1>2, <1>5 DEF HandlerType
<1> HIDE DEF g
<1>7. HandlerKept(h, g)
  <2> HIDE DEF b, h
  <2>1. HandlerSound(g)
    BY <1>2, <1>6 DEF HandlerSound, Closed
  <2> QED BY <1>5, <1>6, <2>1 DEF HandlerKept
<1> QED BY <1>1, <1>2, <1>3, <1>4, <1>7, QuietHandler

\* The watchdog is disarmed before an adoption.
LEMMA OnAdoptionFinalizingOK ==
  ASSUME Core, NEW t \in Token, OnAdoptionFinalizing(t)
  PROVE  Core'
<1> DEFINE h == handler[t]
           g == NoStall(h)
<1>1. t \in Live
  BY DEF OnAdoptionFinalizing, Reports
<1>2. h \in HandlerType /\ HandlerSound(h) /\ faults \in 0 .. MaxFaults
  BY <1>1, LiveSound
<1>3. handler' = [handler EXCEPT ![t] = g]
  BY DEF OnAdoptionFinalizing, Core, Typed
<1>4. UNCHANGED <<row, drain, pass, adoptions, faults, lapses, resubmits, stray>>
  BY DEF OnAdoptionFinalizing, history
<1>5. /\ Alike(h, g) /\ g.over = h.over /\ g.guillotined = h.guillotined
      /\ g.superseded = h.superseded
      /\ g.phase = h.phase /\ g.call = h.call /\ g.settle = h.settle
  <2> HIDE DEF h
  <2> QED BY <1>2, NoStallAlike
<1> HIDE DEF g
<1>6. HandlerKept(h, g)
  <2> HIDE DEF h
  <2> QED BY <1>2, <1>5, AlikeKept DEF HandlerSound, Closed
<1> QED BY <1>1, <1>2, <1>3, <1>4, <1>6, QuietHandler

\* The channel adopts a claim.
LEMMA OnAdoptedOK ==
  ASSUME Core, NEW t \in Token, OnAdopted(t)
  PROVE  Core'
<1> DEFINE h == handler[t]
           g == Kept(Adopting(h))
<1>1. t \in Live /\ ~h.over
  BY DEF OnAdopted, Reports
<1>2. h \in HandlerType /\ HandlerSound(h) /\ faults \in 0 .. MaxFaults
  BY <1>1, LiveSound
<1>3. HandlerKept(h, g) /\ Adopting(h).call # "done"
  BY <1>1, <1>2, AdoptingKept
<1>4. handler' = [handler EXCEPT ![t] = g] /\ adoptions' = adoptions
  BY <1>3 DEF OnAdopted, Reported
<1>5. UNCHANGED <<row, drain, pass, faults, lapses, resubmits, stray>>
  BY DEF OnAdopted, history
<1> HIDE DEF g
<1> QED BY <1>1, <1>2, <1>3, <1>4, <1>5, QuietHandler

\* A failure is settled by a dead letter or by a release.
LEMMA DispositionKinds ==
  ASSUME NEW h, NEW kind \in Dispositions(h)
  PROVE  kind \in {"complete", "release", "fail"}
  BY DEF Dispositions

\* One handler moves by what the channel reported.
LEMMA ReportOK ==
  ASSUME Core, NEW t \in Live, ~handler[t].over, NEW g, NEW kind \in {"complete", "release", "fail"},
         \/ g = Settle(NoStall(Over(handler[t])), kind) /\ PreAdoption(handler[t])
         \/ g = Kept(Over(handler[t]))
         \/ g = Kept(Adopting(handler[t])),
         handler' = [handler EXCEPT ![t] = g],
         UNCHANGED <<row, drain, pass, adoptions, faults, lapses, resubmits, stray>>
  PROVE  Core'
<1> DEFINE h == handler[t]
<1>1. h \in HandlerType /\ HandlerSound(h) /\ faults \in 0 .. MaxFaults
  BY LiveSound
<1>2. HandlerKept(h, g)
  <2>0. ~h.over
    OBVIOUS
  <2>1. CASE g = Settle(NoStall(Over(h)), kind) /\ PreAdoption(h)
    <3> HIDE DEF h
    <3> QED BY <1>1, <2>0, <2>1, SettledReport
  <2>2. CASE g = Kept(Over(h))
    <3> HIDE DEF h
    <3> QED BY <1>1, <2>2, OverKept
  <2>3. CASE g = Kept(Adopting(h))
    <3> HIDE DEF h
    <3> QED BY <1>1, <2>0, <2>3, AdoptingKept
  <2> QED BY <2>1, <2>2, <2>3
<1> QED BY <1>1, <1>2, QuietHandler

\* onFailed
LEMMA OnFailedOK ==
  ASSUME Core, NEW t \in Token, OnFailed(t)
  PROVE  Core'
<1> DEFINE h == handler[t]
<1>1. t \in Live /\ ~h.over
  BY DEF OnFailed, Reports
<1>2. PICK kind \in Dispositions(h) :
        handler' = [handler EXCEPT ![t] =
          IF PreAdoption(h) THEN Settle(NoStall(Over(h)), kind) ELSE Kept(Over(h))]
  BY DEF OnFailed, Core, Typed
<1>3. UNCHANGED <<row, drain, pass, adoptions, faults, lapses, resubmits, stray>>
  BY DEF OnFailed, history
<1>4. kind \in {"complete", "release", "fail"}
  BY DispositionKinds
<1> DEFINE g == IF PreAdoption(h) THEN Settle(NoStall(Over(h)), kind) ELSE Kept(Over(h))
<1>5. \/ g = Settle(NoStall(Over(h)), kind) /\ PreAdoption(h)
      \/ g = Kept(Over(h))
  OBVIOUS
<1>6. handler' = [handler EXCEPT ![t] = g]
  BY <1>2
<1> HIDE DEF g
<1> QED BY <1>1, <1>3, <1>4, <1>5, <1>6, ReportOK

\* onAbandoned
LEMMA OnAbandonedOK ==
  ASSUME Core, NEW t \in Token, OnAbandoned(t)
  PROVE  Core'
<1> DEFINE h == handler[t]
<1>0. PICK kind \in {"complete", "release", "fail"} : kind = "release"
  OBVIOUS
<1>1. t \in Live /\ ~h.over
  BY DEF OnAbandoned, Reports
<1> DEFINE g == IF PreAdoption(h) THEN Settle(NoStall(Over(h)), kind) ELSE Kept(Over(h))
<1>2. handler' = [handler EXCEPT ![t] = g]
  BY <1>0 DEF OnAbandoned, Core, Typed
<1>3. UNCHANGED <<row, drain, pass, adoptions, faults, lapses, resubmits, stray>>
  BY DEF OnAbandoned, history
<1>5. \/ g = Settle(NoStall(Over(h)), kind) /\ PreAdoption(h)
      \/ g = Kept(Over(h))
  OBVIOUS
<1> HIDE DEF g
<1> QED BY <1>1, <1>2, <1>3, <1>5, ReportOK

\* dispatchClaimedEvent returns with its work done.
LEMMA DispatchCompletesOK ==
  ASSUME Core, NEW t \in Token, DispatchCompletes(t)
  PROVE  Core'
<1> DEFINE h == handler[t]
<1>0. PICK kind \in {"complete", "release", "fail"} : kind = "complete"
  OBVIOUS
<1>1. t \in Live /\ ~h.over
  BY DEF DispatchCompletes, Reports
<1> DEFINE g == Kept(IF PreAdoption(h) /\ drain[h.drain] # "disposed" THEN Adopting(h) ELSE Over(h))
<1>2. handler' = [handler EXCEPT ![t] = g]
  BY DEF DispatchCompletes
<1>3. UNCHANGED <<row, drain, pass, adoptions, faults, lapses, resubmits, stray>>
  BY DEF DispatchCompletes, history
<1>5. g = Kept(Over(h)) \/ g = Kept(Adopting(h))
  OBVIOUS
<1> HIDE DEF g
<1> QED BY <1>1, <1>2, <1>3, <1>5, ReportOK

\* dispatchClaimedEvent returns a failure, or throws.
LEMMA DispatchFailsOK ==
  ASSUME Core, NEW t \in Token, DispatchFails(t)
  PROVE  Core'
<1> DEFINE h == handler[t]
<1>1. t \in Live /\ ~h.over
  BY DEF DispatchFails, Reports
<1>2. PICK kind \in Dispositions(h) :
        handler' = [handler EXCEPT ![t] =
          IF PreAdoption(h) /\ drain[h.drain] # "disposed"
          THEN Settle(NoStall(Over(h)), kind) ELSE Kept(Over(h))]
  BY DEF DispatchFails
<1>3. UNCHANGED <<row, drain, pass, adoptions, faults, lapses, resubmits, stray>>
  BY DEF DispatchFails, history
<1>4. kind \in {"complete", "release", "fail"}
  BY DispositionKinds
<1> DEFINE g == IF PreAdoption(h) /\ drain[h.drain] # "disposed"
                THEN Settle(NoStall(Over(h)), kind) ELSE Kept(Over(h))
<1>5. \/ g = Settle(NoStall(Over(h)), kind) /\ PreAdoption(h)
      \/ g = Kept(Over(h))
  OBVIOUS
<1>6. handler' = [handler EXCEPT ![t] = g]
  BY <1>2
<1> HIDE DEF g
<1> QED BY <1>1, <1>3, <1>4, <1>5, <1>6, ReportOK

\* A dispatch ends after its drain was stopped.
LEMMA DispatchStopsOK ==
  ASSUME Core, NEW t \in Token, DispatchStops(t)
  PROVE  Core'
<1> DEFINE h == handler[t]
           g == Kept(Over(h))
<1>0. PICK kind \in {"complete", "release", "fail"} : kind = "complete"
  OBVIOUS
<1>1. t \in Live /\ ~h.over
  BY DEF DispatchStops, Reports
<1>2. handler' = [handler EXCEPT ![t] = g]
  BY DEF DispatchStops, Core, Typed
<1>3. UNCHANGED <<row, drain, pass, adoptions, faults, lapses, resubmits, stray>>
  BY DEF DispatchStops, history
<1> QED BY <1>1, <1>2, <1>3, ReportOK

-----------------------------------------------------------------------------
(* Timers and writes that fail *)

\* A claim that is closed is settled unless it is being settled.
LEMMA ClosedAndSettled ==
  ASSUME NEW h \in HandlerType, HandlerSound(h), NEW c, NEW kind \in {"complete", "release", "fail"},
         Alike(h, c), Closed(c), c.settle = h.settle, c.call = h.call
  PROVE  HandlerKept(h, Settle(c, kind))
<1> DEFINE g == Settle(c, kind)
<1>0. c \in HandlerType
  BY DEF Alike
<1>1. /\ Alike(c, g) /\ g.over = c.over /\ g.guillotined = c.guillotined
      /\ g.superseded = c.superseded /\ g.call = c.call
      /\ g.settle = IF c.phase = "settled" \/ c.settle # "none" THEN c.settle ELSE kind
  BY <1>0, SettleAlike
<1> HIDE DEF g
<1>2. Alike(h, g) /\ Closed(g)
  BY <1>1, AlikeTwice DEF Closed
<1>3. g.call = "waiting" => g.settle = "complete"
  BY <1>1 DEF HandlerSound
<1>4. HandlerKept(h, g)
  BY <1>2, <1>3, AlikeKept
<1> QED BY <1>4 DEF g

\* armStallWatchdog
LEMMA StallOK ==
  ASSUME Core, NEW t \in Token, Stall(t)
  PROVE  Core'
<1> DEFINE h == handler[t]
           c == [h EXCEPT !.guillotined = TRUE]
           n == NoStall(c)
<1>0. PICK kind \in {"complete", "release", "fail"} : kind = "fail"
  OBVIOUS
<1>1. t \in Live
  BY DEF Stall
<1>2. h \in HandlerType /\ HandlerSound(h) /\ faults \in 0 .. MaxFaults
  BY <1>1, LiveSound
<1>3. handler' = [handler EXCEPT ![t] = Settle(n, kind)]
  BY <1>0 DEF Stall, Core, Typed
<1>4. UNCHANGED <<row, drain, pass, adoptions, faults, lapses, resubmits, stray>>
  BY DEF Stall, history
<1>5. HandlerKept(h, Settle(n, kind))
  <2> HIDE DEF h
  <2>1. Alike(h, c) /\ c.guillotined /\ c.settle = h.settle /\ c.call = h.call /\ c \in HandlerType
    BY <1>2 DEF Alike, HandlerType
  <2> HIDE DEF c
  <2>2. Alike(c, n) /\ n.guillotined = c.guillotined /\ n.settle = c.settle /\ n.call = c.call
    BY <2>1, NoStallAlike
  <2> HIDE DEF n
  <2>3. Alike(h, n)
    BY <2>1, <2>2, AlikeTwice
  <2> QED BY <1>2, <2>1, <2>2, <2>3, ClosedAndSettled DEF Closed
<1> DEFINE g == Settle(n, kind)
<1> HIDE DEF g
<1>6. handler' = [handler EXCEPT ![t] = g] /\ HandlerKept(h, g)
  BY <1>3, <1>5 DEF g
<1> QED BY <1>1, <1>2, <1>4, <1>6, QuietHandler

\* A write is given up.
LEMMA GivesUpKept ==
  ASSUME NEW h \in HandlerType, HandlerSound(h)
  PROVE  HandlerKept(h, Kept(GivesUp(h))) /\ Reported(h, GivesUp(h)) = adoptions
<1> DEFINE g == GivesUp(h)
<1>1. /\ Alike(h, g) /\ g.phase = h.phase /\ g.settle = "none" /\ g.call # "waiting"
      /\ g.call = "done" => h.call = "done"
  BY GivesUpAlike
<1> HIDE DEF g
<1>2. g.phase \in {"adopted", "settled"} => Closed(g)
  BY <1>1 DEF HandlerSound, Closed, Alike
<1>3. HandlerKept(h, Kept(g))
  BY <1>1, <1>2, AlikeKept
<1>4. Reported(h, g) = adoptions
  BY <1>1 DEF Reported
<1> QED BY <1>3, <1>4 DEF g

\* commitClaimWriteWithRetry: a write fails.
LEMMA WriteFailsOK ==
  ASSUME Core, NEW t \in Token, WriteFails(t)
  PROVE  Core'
<1> DEFINE h == handler[t]
<1>1. t \in Live
  BY DEF WriteFails
<1>2. h \in HandlerType /\ HandlerSound(h) /\ faults \in 0 .. MaxFaults
  BY <1>1, LiveSound
<1>3. faults' \in 0 .. MaxFaults
  BY <1>2, BoundAssumption DEF WriteFails
<1>4. UNCHANGED <<row, drain, pass, lapses, resubmits, stray>>
  BY DEF WriteFails
<1>5. CASE h.tries + 1 >= WriteAttempts \/ Stopped(h.drain)
  <2> DEFINE g == Kept(GivesUp(h))
  <2>1. handler' = [handler EXCEPT ![t] = g] /\ adoptions' = Reported(h, GivesUp(h))
    BY <1>5 DEF WriteFails
  <2>2. HandlerKept(h, g) /\ Reported(h, GivesUp(h)) = adoptions
    <3> HIDE DEF h
    <3> QED BY <1>2, GivesUpKept
  <2>3. adoptions' = adoptions
    BY <2>1, <2>2
  <2> HIDE DEF g
  <2> QED BY <1>1, <1>3, <1>4, <2>1, <2>2, <2>3, QuietHandler
<1>6. CASE ~(h.tries + 1 >= WriteAttempts \/ Stopped(h.drain))
  <2>1. PICK k \in 0 .. WriteAttempts : k = h.tries + 1
    <3>1. h.tries \in 0 .. WriteAttempts
      <4> HIDE DEF h
      <4> QED BY <1>2 DEF HandlerType
    <3> QED BY <1>6, <3>1, BoundAssumption
  <2> DEFINE g == [h EXCEPT !.tries = k]
  <2>2. handler' = [handler EXCEPT ![t] = g] /\ adoptions' = adoptions
    <3>1. handler' = [handler EXCEPT ![t].tries = @ + 1] /\ adoptions' = adoptions
      BY <1>6 DEF WriteFails
    <3> QED BY <2>1, <3>1
  <2>3. HandlerKept(h, g)
    <3> HIDE DEF h
    <3>1. /\ Alike(h, g) /\ g.over = h.over /\ g.guillotined = h.guillotined
          /\ g.superseded = h.superseded /\ g.phase = h.phase /\ g.call = h.call
          /\ g.settle = h.settle
      BY <1>2 DEF Alike, HandlerType
    <3> HIDE DEF g
    <3> QED BY <1>2, <3>1, AlikeKept DEF HandlerSound, Closed
  <2> HIDE DEF g
  <2> QED BY <1>1, <1>3, <1>4, <2>2, <2>3, QuietHandler
<1> QED BY <1>5, <1>6

\* A retry does not outlive its drain.
LEMMA RetryStoppedOK ==
  ASSUME Core, NEW t \in Token, RetryStopped(t)
  PROVE  Core'
<1> DEFINE h == handler[t]
           g == Kept(GivesUp(h))
<1>1. t \in Live
  BY DEF RetryStopped
<1>2. h \in HandlerType /\ HandlerSound(h) /\ faults \in 0 .. MaxFaults
  BY <1>1, LiveSound
<1>3. /\ UNCHANGED <<row, drain, pass, faults, lapses, resubmits, stray>>
      /\ handler' = [handler EXCEPT ![t] = g] /\ adoptions' = Reported(h, GivesUp(h))
  BY DEF RetryStopped, history
<1>4. HandlerKept(h, g) /\ Reported(h, GivesUp(h)) = adoptions
  <2> HIDE DEF h
  <2> QED BY <1>2, GivesUpKept
<1>5. adoptions' = adoptions
  BY <1>3, <1>4
<1> HIDE DEF g
<1> QED BY <1>1, <1>2, <1>3, <1>4, <1>5, QuietHandler

\* armClaimRefresh: the lease is renewed, or found lost, or no longer wanted.
LEMMA RefreshOK ==
  ASSUME Core, NEW t \in Token, Refresh(t)
  PROVE  Core'
<1> DEFINE h == handler[t]
           closed == h.guillotined \/ h.superseded
<1>0. Typed
  BY DEF Core
<1>1. t \in Live
  BY DEF Refresh
<1>2. h \in HandlerType /\ HandlerSound(h) /\ faults \in 0 .. MaxFaults /\ h.event \in Event
  BY <1>1, LiveSound
<1>3. UNCHANGED <<drain, pass, adoptions, faults, lapses, resubmits, stray>>
  BY DEF Refresh, history
<1>4. CASE closed
  <2> DEFINE g == [h EXCEPT !.claimRefreshTimer = FALSE]
  <2>1. handler' = [handler EXCEPT ![t] = g] /\ row' = row
    BY <1>4 DEF Refresh
  <2>2. HandlerKept(h, g)
    <3>0. h.guillotined \/ h.superseded
      BY <1>4
    <3> HIDE DEF h
    <3>1. /\ g \in HandlerType /\ g.event = h.event /\ g.drain = h.drain /\ g.active = h.active
          /\ g.occupiesLane = h.occupiesLane
          /\ g.over = h.over /\ g.guillotined = h.guillotined /\ g.superseded = h.superseded
          /\ g.phase = h.phase /\ g.settle = h.settle /\ g.call = h.call
      BY <1>2 DEF HandlerType
    <3> HIDE DEF g
    <3>2. HandlerSound(g)
      BY <1>2, <3>0, <3>1 DEF HandlerSound, Closed
    <3> QED BY <3>1, <3>2 DEF HandlerKept
  <2> HIDE DEF g
  <2> QED BY <1>1, <1>2, <1>3, <2>1, <2>2, QuietHandler
<1>5. CASE ~closed /\ ~Owns(t)
  <2> DEFINE n == NoStall(h)
             g == [n EXCEPT !.guillotined = TRUE, !.claimRefreshTimer = FALSE]
  <2>1. handler' = [handler EXCEPT ![t] = g] /\ row' = row
    BY <1>5 DEF Refresh, LeaseReclaimed
  <2>2. HandlerKept(h, g)
    <3> HIDE DEF h
    <3>1. /\ Alike(h, n) /\ n.over = h.over /\ n.guillotined = h.guillotined
          /\ n.superseded = h.superseded /\ n \in HandlerType
          /\ n.phase = h.phase /\ n.call = h.call /\ n.settle = h.settle
      BY <1>2, NoStallAlike DEF Alike
    <3> HIDE DEF n
    <3>2. /\ g \in HandlerType /\ g.event = n.event /\ g.drain = n.drain /\ g.active = n.active
          /\ g.occupiesLane = n.occupiesLane
          /\ g.over = n.over /\ g.guillotined /\ g.superseded = n.superseded
          /\ g.phase = n.phase /\ g.settle = n.settle /\ g.call = n.call
      BY <3>1 DEF HandlerType
    <3> HIDE DEF g
    <3>3. HandlerSound(g)
      BY <1>2, <3>1, <3>2 DEF HandlerSound, Closed
    <3> QED BY <3>1, <3>2, <3>3 DEF HandlerKept, Alike
  <2> HIDE DEF g
  <2> QED BY <1>1, <1>2, <1>3, <2>1, <2>2, QuietHandler
<1>6. CASE ~closed /\ Owns(t)
  <2>0. PICK b \in BOOLEAN : b = TRUE
    OBVIOUS
  <2>1. PICK e \in Event : e = h.event
    BY <1>2
  <2> DEFINE r == [row[e] EXCEPT !.fresh = b]
  <2>2. handler' = handler
    BY <1>0, <1>6 DEF Refresh, Typed
  <2>3. row' = [row EXCEPT ![e] = r]
    BY <1>0, <1>6, <2>0, <2>1 DEF Refresh, Typed
  <2>4. row[e].status = "claimed"
    BY <1>6, <2>1 DEF Owns
  <2>5. lapses' \in 0 .. MaxLapses /\ lapses' = lapses /\ b
    BY <1>0, <1>3, <2>0 DEF Typed
  <2> QED BY <1>3, <2>2, <2>3, <2>4, <2>5, FlagOK
<1> QED BY <1>4, <1>5, <1>6

-----------------------------------------------------------------------------
(* Passes *)

\* listClaims
LEMMA PassBlocksOK ==
  ASSUME Core, NEW d \in Drain, PassBlocks(d)
  PROVE  Core'
<1> DEFINE p == pass[d]
<1>0. p \in PassType /\ p.at = "listed"
  BY DEF PassBlocks, Core, Typed
<1>1. PICK a \in {"scan", "claim"} : a = IF Supersedes THEN "scan" ELSE "claim"
  OBVIOUS
<1>2. PICK bl \in SUBSET Lane : pass' = [pass EXCEPT ![d].at = a, ![d].blocked = bl]
  BY <1>1 DEF PassBlocks
<1> DEFINE q == [p EXCEPT !.at = a, !.blocked = bl]
<1>3. pass' = [pass EXCEPT ![d] = q]
  BY <1>2 DEF Core, Typed
<1>4. UNCHANGED <<row, drain, handler, adoptions, history>>
  BY DEF PassBlocks
<1>5. PassKept(p, q)
  <2> HIDE DEF p
  <2> QED BY <1>0 DEF PassKept, PassType
<1> HIDE DEF q
<1> QED BY <1>3, <1>4, <1>5, QuietPass

\* The scan for superseded claims ends.
LEMMA ScanEndsOK ==
  ASSUME Core, NEW d \in Drain, ScanEnds(d)
  PROVE  Core'
<1> DEFINE p == pass[d]
<1>0. p \in PassType /\ p.at = "scan"
  BY DEF ScanEnds, Core, Typed
<1>1. PICK bl \in SUBSET Lane : bl = p.blocked \ {l \in p.superseded : Owners(d, l) = {}}
  BY <1>0 DEF PassType
<1> DEFINE q == [p EXCEPT !.at = "claim", !.superseded = {}, !.blocked = bl]
<1>2. pass' = [pass EXCEPT ![d] = q]
  BY <1>1 DEF ScanEnds, Core, Typed
<1>3. UNCHANGED <<row, drain, handler, adoptions, history>>
  BY DEF ScanEnds
<1>4. PassKept(p, q)
  <2> HIDE DEF p
  <2> QED BY <1>0 DEF PassKept, PassType
<1> HIDE DEF q
<1> QED BY <1>2, <1>3, <1>4, QuietPass

\* No pass: what an idle drain has.
LEMMA IdlePassType ==
  IdlePass \in PassType /\ IdlePass.at = "idle" /\ IdlePass.token = Nil
  BY DEF IdlePass, PassType

\* A pass that has nothing in its hands ends.
LEMMA PassEndsOK ==
  ASSUME Core, NEW d \in Drain, PassEnds(d)
  PROVE  Core'
<1> DEFINE p == pass[d]
<1>1. p.at # "claimed"
  BY DEF PassEnds
<1>2. p.token = Nil
  BY <1>1 DEF Core, PassesSound
<1>3. PassKept(p, IdlePass)
  BY <1>1, <1>2, IdlePassType DEF PassKept
<1>4. pass' = [pass EXCEPT ![d] = IdlePass] /\ UNCHANGED <<row, drain, handler, adoptions, history>>
  BY DEF PassEnds
<1> QED BY <1>3, <1>4, QuietPass

\* supersedeActiveStatesIfNeeded
LEMMA SupersedeOK ==
  ASSUME Core, NEW d \in Drain, NEW e \in Event, NEW t \in Token, Supersede(d, e, t)
  PROVE  Core'
<1> DEFINE h == handler[t]
           c == [h EXCEPT !.superseded = TRUE, !.stallTimer = FALSE]
           p == pass[d]
<1>0. Typed /\ t \in Live /\ p \in PassType
  BY DEF Core, Typed, Supersede
<1>1. h \in HandlerType /\ HandlerSound(h)
  BY <1>0, LiveSound
<1>2. PICK kind \in {"complete", "release", "fail"} : kind = "complete"
  OBVIOUS
<1> DEFINE g == Settle(c, kind)
<1>3. handler' = [handler EXCEPT ![t] = g]
  BY <1>2 DEF Supersede
<1>4. HandlerKept(h, g)
  <2> HIDE DEF h
  <2>1. Alike(h, c) /\ c.superseded /\ c.settle = h.settle /\ c.call = h.call
    BY <1>1 DEF Alike, HandlerType
  <2> HIDE DEF c
  <2> QED BY <1>1, <2>1, ClosedAndSettled DEF Closed
<1> HIDE DEF g
<1>5. LaneOf[e] \in Lane
  BY DEF Lane
<1>6. PICK sl \in SUBSET Lane : sl = p.superseded \cup {LaneOf[e]}
  BY <1>0, <1>5 DEF PassType
<1> DEFINE q == [p EXCEPT !.superseded = sl]
<1>7. pass' = [pass EXCEPT ![d] = q]
  BY <1>0, <1>6 DEF Supersede, Typed
<1>8. PassKept(p, q)
  <2> HIDE DEF p
  <2> QED BY <1>0 DEF PassKept, PassType
<1> HIDE DEF q
<1>9. UNCHANGED <<row, drain, adoptions, faults, lapses, resubmits, stray>>
  BY DEF Supersede, history
<1>10. \A f \in Event : RowKept(f)
  BY <1>9, SameRow
<1>11. \A b \in Drain : PassKept(pass[b], pass'[b])
  <2> SUFFICES ASSUME NEW b \in Drain PROVE PassKept(pass[b], pass'[b])
    OBVIOUS
  <2>1. b = d => pass'[b] = q
    BY <1>0, <1>7 DEF Typed
  <2>2. b # d => pass'[b] = pass[b]
    BY <1>0, <1>7 DEF Typed
  <2> QED BY <1>8, <2>1, <2>2, SamePass
<1>12. handler'[t] = g /\ \A u \in Token : u # t => handler'[u] = handler[u]
  BY <1>0, <1>3 DEF Typed
<1>13. /\ row' = [f \in Event |-> row'[f]] /\ handler' = [u \in Token |-> handler'[u]]
       /\ pass' = [b \in Drain |-> pass'[b]]
  BY <1>0, <1>3, <1>7, <1>9 DEF Typed
<1>14. \A u \in Token : \/ handler'[u] = handler[u]
                        \/ u \in Live /\ HandlerKept(handler[u], handler'[u])
  BY <1>0, <1>4, <1>12
<1>15. Quiet
  BY <1>0, <1>9, <1>10, <1>11, <1>13, <1>14 DEF Quiet, Typed
<1> QED BY <1>15, QuietKeepsCore

-----------------------------------------------------------------------------
(* Steps that let a claim go *)

\* A claim leaves its row; other rows are left alone.
RowLet(e) ==
  \/ row'[e] = row[e]
  \/ row'[e] \in RowType /\ RowSound(row'[e]) /\ row'[e].status # "claimed" /\ row[e].status = "claimed"

\* A handler is forgotten, or works for less than before.
Loosened(h, g) ==
  \/ g = Nil
  \/ /\ g \in HandlerType /\ HandlerSound(g)
     /\ g.event = h.event /\ g.drain = h.drain
     /\ g.active => h.active
     /\ g.occupiesLane => h.occupiesLane
     /\ h.guillotined => g.guillotined
     /\ h.superseded => g.superseded

PassLet(d) ==
  \/ pass'[d] = pass[d]
  \/ /\ pass'[d] \in PassType /\ pass'[d].at # "claimed" /\ pass'[d].token = Nil
     /\ drain'[d] = "new" => pass'[d].at = "idle"

\* Who attends a claim that stays attends it still.
StillAttended ==
  \A e \in Event :
    row[e].status = "claimed" /\ row'[e] = row[e] /\ drain'[row[e].owner] = "up" /\ e \notin stray' =>
    /\ row[e].token \in Live /\ handler[row[e].token].active =>
         row[e].token \in Live' /\ handler'[row[e].token].active
    /\ pass[row[e].owner].token = row[e].token => pass'[row[e].owner] = pass[row[e].owner]

\* What stays in the hands of a drain that is up stays in its row.
StillLeased ==
  lapses = 0 =>
    /\ \A t \in Token :
         /\ t \in Live /\ Holds(t) /\ Leased(handler[t].drain, handler[t].event, t)
         /\ t \in Live' /\ Holds(t)'
         => row'[handler[t].event] = row[handler[t].event]
    /\ \A d \in Drain :
         /\ pass[d].at = "claimed" /\ drain[d] = "up" /\ Leased(d, pass[d].event, pass[d].token)
         /\ pass'[d] = pass[d] /\ drain'[d] = "up"
         => row'[pass[d].event] = row[pass[d].event]

LettingGo ==
  /\ row' = [e \in Event |-> row'[e]] /\ \A e \in Event : RowLet(e)
  /\ handler' = [t \in Token |-> handler'[t]]
  /\ \A t \in Token : \/ handler'[t] = handler[t]
                      \/ t \in Live /\ Loosened(handler[t], handler'[t])
  /\ pass' = [d \in Drain |-> pass'[d]] /\ \A d \in Drain : PassLet(d)
  /\ drain' \in [Drain -> {"new", "up", "aborted", "disposed", "dead"}]
  /\ \A d \in Drain : drain'[d] = drain[d] \/ drain'[d] \notin {"up", "new"}
  /\ adoptions' \in [Event -> 0 .. 2] /\ faults' \in 0 .. MaxFaults /\ UNCHANGED <<lapses, resubmits>>
  /\ stray' \in SUBSET Event /\ stray \subseteq stray'

\* Such a step keeps the invariant.
LEMMA LettingGoKeepsCore ==
  ASSUME Core, LettingGo, StillAttended, StillLeased, AdoptionIsDurable'
  PROVE  Core'
<1>0. Typed
  BY DEF Core
<1>1. \A d \in Drain : (drain'[d] = "up" => drain[d] = "up") /\ (drain'[d] = "new" => drain[d] = "new")
  BY DEF LettingGo
<1>2. \A d \in Drain :
        \/ pass'[d] = pass[d]
        \/ /\ pass'[d] \in PassType /\ pass'[d].at # "claimed" /\ pass'[d].token = Nil
           /\ drain'[d] = "new" => pass'[d].at = "idle"
  BY DEF LettingGo, PassLet
<1>3. \A t \in Token : t \in Live' =>
        /\ t \in Live /\ handler'[t] \in HandlerType /\ HandlerSound(handler'[t])
        /\ handler'[t].event = handler[t].event /\ handler'[t].drain = handler[t].drain
        /\ handler'[t].active => handler[t].active
        /\ handler'[t].occupiesLane => handler[t].occupiesLane
        /\ handler[t].guillotined => handler'[t].guillotined
        /\ handler[t].superseded => handler'[t].superseded
  <2> SUFFICES ASSUME NEW t \in Token, t \in Live'
      PROVE
        /\ t \in Live /\ handler'[t] \in HandlerType /\ HandlerSound(handler'[t])
        /\ handler'[t].event = handler[t].event /\ handler'[t].drain = handler[t].drain
        /\ handler'[t].active => handler[t].active
        /\ handler'[t].occupiesLane => handler[t].occupiesLane
        /\ handler[t].guillotined => handler'[t].guillotined
        /\ handler[t].superseded => handler'[t].superseded
    OBVIOUS
  <2>0. handler'[t] # Nil
    BY DEF Live
  <2>1. CASE handler'[t] = handler[t]
    <3>1. t \in Live
      BY <2>0, <2>1 DEF Live
    <3> QED BY <1>0, <2>1, <3>1, LiveType DEF Core, HandlersSound
  <2>2. CASE handler'[t] # handler[t]
    BY <2>0, <2>2 DEF LettingGo, Loosened
  <2> QED BY <2>1, <2>2
<1>4. \A e \in Event : /\ row'[e] \in RowType /\ RowSound(row'[e])
                       /\ row'[e].status = "claimed" => row'[e] = row[e]
  BY <1>0 DEF LettingGo, RowLet, Core, RowsSound, Typed
<1>5. \A t \in Live' : t \in Token
  BY DEF Live
<1>6. Typed'
  <2>1. row' \in [Event -> RowType]
    BY <1>4 DEF LettingGo
  <2>2. pass' \in [Drain -> PassType]
    BY <1>0, <1>2 DEF LettingGo, Typed
  <2>3. handler' \in [Token -> HandlerType \cup {Nil}]
    <3>1. \A t \in Token : handler'[t] \in HandlerType \cup {Nil}
      BY <1>3 DEF Live
    <3> QED BY <3>1 DEF LettingGo
  <2> QED BY <1>0, <2>1, <2>2, <2>3 DEF Typed, LettingGo
<1>7. RowsSound' /\ HandlersSound'
  <2>1. RowsSound'
    BY <1>4 DEF RowsSound
  <2>2. HandlersSound'
    BY <1>3, <1>5 DEF HandlersSound
  <2> QED BY <2>1, <2>2
<1>8. PassesSound'
  <2> SUFFICES ASSUME NEW d \in Drain
               PROVE  /\ pass'[d].at = "claimed" => /\ pass'[d].event \in Event /\ pass'[d].token \in Token
                                                    /\ handler'[pass'[d].token] = Nil
                      /\ pass'[d].at # "claimed" => pass'[d].token = Nil
    BY DEF PassesSound
  <2>1. /\ pass[d].at = "claimed" => /\ pass[d].event \in Event /\ pass[d].token \in Token
                                     /\ handler[pass[d].token] = Nil
        /\ pass[d].at # "claimed" => pass[d].token = Nil
    BY DEF Core, PassesSound
  <2>2. \A t \in Token : handler[t] = Nil => handler'[t] = Nil
    BY <1>3 DEF Live
  <2> QED BY <1>2, <2>1, <2>2
<1>9. PassesApart'
  BY <1>2 DEF Core, PassesApart
<1>10. NewDrainsIdle'
  <2> SUFFICES ASSUME NEW d \in Drain, drain'[d] = "new"
               PROVE  /\ pass'[d].at = "idle"
                      /\ \A t \in Live' : handler'[t].drain # d
                      /\ \A e \in Event : row'[e].status = "claimed" => row'[e].owner # d
    BY DEF NewDrainsIdle
  <2>1. /\ pass[d].at = "idle"
        /\ \A t \in Live : handler[t].drain # d
        /\ \A e \in Event : row[e].status = "claimed" => row[e].owner # d
    BY <1>1 DEF Core, NewDrainsIdle
  <2> QED BY <1>2, <1>3, <1>4, <1>5, <2>1
<1>11. TokensMatch'
  <2> SUFFICES ASSUME NEW e \in Event, row'[e].status = "claimed"
               PROVE  /\ row'[e].token \in Live' =>
                           /\ handler'[row'[e].token].event = e
                           /\ handler'[row'[e].token].drain = row'[e].owner
                      /\ \A d \in Drain : pass'[d].token = row'[e].token =>
                           pass'[d].event = e /\ row'[e].owner = d
    BY DEF TokensMatch
  <2>1. row[e].status = "claimed" /\ row'[e] = row[e]
    BY <1>4
  <2>2. row[e].token \in Token
    BY <2>1 DEF Core, RowsSound, RowSound
  <2>3. row'[e].token \in Live' =>
          handler'[row'[e].token].event = e /\ handler'[row'[e].token].drain = row'[e].owner
    BY <1>3, <2>1, <2>2 DEF Core, TokensMatch
  <2>4. ASSUME NEW d \in Drain, pass'[d].token = row'[e].token
        PROVE  pass'[d].event = e /\ row'[e].owner = d
    <3>1. pass'[d] = pass[d]
      BY <1>2, <2>1, <2>2, <2>4, NilAssumption
    <3> QED BY <2>1, <2>4, <3>1 DEF Core, TokensMatch
  <2> QED BY <2>3, <2>4
<1>12. LeasesKept'
  <2> SUFFICES ASSUME lapses' = 0
               PROVE  /\ \A t \in Live' : Holds(t)' =>
                           Leased(handler[t].drain, handler[t].event, t)'
                      /\ \A d \in Drain : pass'[d].at = "claimed" /\ drain'[d] = "up" =>
                           Leased(d, pass[d].event, pass[d].token)'
    BY DEF LeasesKept
  <2>0. lapses = 0
    BY DEF LettingGo
  <2>1. ASSUME NEW t \in Live', Holds(t)'
        PROVE  Leased(handler[t].drain, handler[t].event, t)'
    <3>0. t \in Token
      BY DEF Live
    <3>1. t \in Live
      BY <1>3, <2>1, <3>0
    <3>2. handler[t].drain \in Drain
      BY <1>0, <3>1, LiveType
    <3>3. Holds(t)
      BY <1>1, <1>3, <2>1, <3>0, <3>2 DEF Holds
    <3>4. Leased(handler[t].drain, handler[t].event, t)
      BY <2>0, <3>1, <3>3 DEF Core, LeasesKept
    <3>5. row'[handler[t].event] = row[handler[t].event]
      BY <2>0, <2>1, <3>0, <3>1, <3>3, <3>4 DEF StillLeased
    <3>6. handler'[t].event = handler[t].event /\ handler'[t].drain = handler[t].drain
      BY <1>3, <3>0
    <3> QED BY <3>4, <3>5, <3>6 DEF Leased
  <2>2. ASSUME NEW d \in Drain, pass'[d].at = "claimed", drain'[d] = "up"
        PROVE  Leased(d, pass[d].event, pass[d].token)'
    <3>1. pass'[d] = pass[d] /\ drain[d] = "up" /\ pass[d].at = "claimed"
      BY <1>1, <1>2, <2>2
    <3>2. Leased(d, pass[d].event, pass[d].token)
      BY <2>0, <3>1 DEF Core, LeasesKept
    <3>3. row'[pass[d].event] = row[pass[d].event]
      BY <2>0, <2>2, <3>1, <3>2 DEF StillLeased
    <3> QED BY <3>1, <3>2, <3>3 DEF Leased
  <2> QED BY <2>1, <2>2
<1>13. ClaimAttended'
  <2> SUFFICES ASSUME NEW e \in Event, row'[e].status = "claimed", drain'[row'[e].owner] = "up"
               PROVE  \/ pass'[row'[e].owner].token = row'[e].token
                      \/ row'[e].token \in Live' /\ handler'[row'[e].token].active
                      \/ e \in stray'
    BY DEF ClaimAttended
  <2>1. row[e].status = "claimed" /\ row'[e] = row[e]
    BY <1>4
  <2>2. row[e].owner \in Drain /\ row[e].token \in Token
    BY <2>1 DEF Core, RowsSound, RowSound
  <2>3. drain[row[e].owner] = "up" /\ drain'[row[e].owner] = "up"
    BY <1>1, <2>1, <2>2
  <2>4. \/ pass[row[e].owner].token = row[e].token
        \/ row[e].token \in Live /\ handler[row[e].token].active
        \/ e \in stray
    BY <2>1, <2>3 DEF Core, ClaimAttended
  <2> QED BY <2>1, <2>3, <2>4 DEF StillAttended, LettingGo
<1>14. LaneSerialized'
  <2> SUFFICES ASSUME NEW t \in Live', NEW u \in Live',
                      handler'[t].active, handler'[t].occupiesLane,
                      handler'[u].active, handler'[u].occupiesLane,
                      handler'[t].drain = handler'[u].drain,
                      LaneOf[handler'[t].event] = LaneOf[handler'[u].event]
               PROVE  t = u
    BY DEF LaneSerialized
  <2>2. /\ t \in Live /\ u \in Live /\ handler[t].active /\ handler[t].occupiesLane
        /\ handler[u].active /\ handler[u].occupiesLane
        /\ handler[t].drain = handler[u].drain
        /\ LaneOf[handler[t].event] = LaneOf[handler[u].event]
    BY <1>3, <1>5
  <2> QED BY <2>2 DEF Core, LaneSerialized
<1> QED
  BY <1>6, <1>7, <1>8, <1>9, <1>10, <1>11, <1>12, <1>13, <1>14 DEF Core

\* abortActiveClaims
LEMMA AbortOK ==
  ASSUME Core, NEW d \in Drain, Abort(d)
  PROVE  Core'
<1>0. Typed
  BY DEF Core
<1>1. drain[d] = "up" /\ drain' = [drain EXCEPT ![d] = "aborted"]
      /\ UNCHANGED <<row, pass, handler, adoptions, faults, lapses, resubmits, stray>>
  BY DEF Abort, history
<1>2. LettingGo
  <2>1. (\A e \in Event : RowLet(e)) /\ \A c \in Drain : PassLet(c)
    BY <1>1 DEF RowLet, PassLet
  <2>2. /\ drain' \in [Drain -> {"new", "up", "aborted", "disposed", "dead"}]
        /\ \A c \in Drain : drain'[c] = drain[c] \/ drain'[c] \notin {"up", "new"}
    BY <1>0, <1>1 DEF Typed
  <2> QED BY <1>0, <1>1, <2>1, <2>2 DEF LettingGo, Typed
<1>3. StillAttended /\ StillLeased
  BY <1>1 DEF StillAttended, StillLeased, Live
<1>4. AdoptionIsDurable'
  BY <1>1 DEF Core, AdoptionIsDurable
<1> QED BY <1>2, <1>3, <1>4, LettingGoKeepsCore

\* removeActive: the drain works no more for the claim.
LEMMA RemoveActiveFields ==
  ASSUME NEW h \in HandlerType
  PROVE  LET g == RemoveActive(h) IN
         /\ g \in HandlerType /\ g.event = h.event /\ g.drain = h.drain
         /\ ~g.active /\ ~g.occupiesLane
         /\ g.over = h.over /\ g.guillotined = h.guillotined /\ g.superseded = h.superseded
         /\ g.phase = h.phase /\ g.settle = h.settle /\ g.call = h.call
  BY DEF RemoveActive, HandlerType

\* The same, and what is over is forgotten.
LEMMA RemovedIsLoosened ==
  ASSUME NEW h \in HandlerType, HandlerSound(h)
  PROVE  Loosened(h, Kept(RemoveActive(h)))
<1> DEFINE g == RemoveActive(h)
<1>1. /\ g \in HandlerType /\ g.event = h.event /\ g.drain = h.drain
      /\ ~g.active /\ ~g.occupiesLane
      /\ g.over = h.over /\ g.guillotined = h.guillotined /\ g.superseded = h.superseded
      /\ g.phase = h.phase /\ g.settle = h.settle /\ g.call = h.call
  BY RemoveActiveFields
<1> HIDE DEF g
<1>2. HandlerSound(g)
  BY <1>1 DEF HandlerSound, Closed
<1>3. Kept(g) = Nil \/ Kept(g) = g
  BY DEF Kept
<1>4. Loosened(h, Kept(g))
  BY <1>1, <1>2, <1>3 DEF Loosened
<1> QED BY <1>4 DEF g

\* A drain is disposed.
LEMMA DisposeOK ==
  ASSUME Core, NEW d \in Drain, Dispose(d)
  PROVE  Core'
<1>0. Typed
  BY DEF Core
<1>1. /\ drain' = [drain EXCEPT ![d] = "disposed"]
      /\ handler' = [t \in Token |-> IF t \in Live /\ handler[t].drain = d
                                     THEN Kept(RemoveActive(handler[t])) ELSE handler[t]]
      /\ UNCHANGED <<row, pass, adoptions, faults, lapses, resubmits, stray>>
  BY DEF Dispose, history
<1>2. LettingGo
  <2>1. (\A e \in Event : RowLet(e)) /\ \A c \in Drain : PassLet(c)
    BY <1>1 DEF RowLet, PassLet
  <2>2. /\ drain' \in [Drain -> {"new", "up", "aborted", "disposed", "dead"}]
        /\ \A c \in Drain : drain'[c] = drain[c] \/ drain'[c] \notin {"up", "new"}
    BY <1>0, <1>1 DEF Typed
  <2>3. \A t \in Token : \/ handler'[t] = handler[t]
                         \/ t \in Live /\ Loosened(handler[t], handler'[t])
    <3> SUFFICES ASSUME NEW t \in Token, t \in Live, handler[t].drain = d
                 PROVE  Loosened(handler[t], handler'[t])
      BY <1>1
    <3>1. handler[t] \in HandlerType /\ HandlerSound(handler[t])
      BY LiveSound
    <3>2. handler'[t] = Kept(RemoveActive(handler[t]))
      BY <1>1
    <3> QED BY <3>1, <3>2, RemovedIsLoosened
  <2>4. handler' = [t \in Token |-> handler'[t]]
    BY <1>1
  <2> QED BY <1>0, <1>1, <2>1, <2>2, <2>3, <2>4 DEF LettingGo, Typed
<1>3. StillAttended
  <2> SUFFICES ASSUME NEW e \in Event, row[e].status = "claimed", drain'[row[e].owner] = "up",
                      row[e].token \in Live, handler[row[e].token].active
               PROVE  row[e].token \in Live' /\ handler'[row[e].token].active
    BY <1>1 DEF StillAttended
  <2>1. row[e].owner \in Drain /\ row[e].token \in Token
    BY DEF Core, RowsSound, RowSound
  <2>2. row[e].owner # d
    BY <1>0, <1>1, <2>1 DEF Typed
  <2>3. handler[row[e].token].drain # d
    BY <2>2 DEF Core, TokensMatch
  <2>4. handler'[row[e].token] = handler[row[e].token]
    BY <1>1, <2>1, <2>3
  <2> QED BY <2>4 DEF Live
<1>4. StillLeased
  BY <1>1 DEF StillLeased
<1>5. AdoptionIsDurable'
  BY <1>1 DEF Core, AdoptionIsDurable
<1> QED BY <1>2, <1>3, <1>4, <1>5, LettingGoKeepsCore

\* A process dies.
LEMMA CrashOK ==
  ASSUME Core, NEW p \in Process, Crash(p)
  PROVE  Core'
<1> DEFINE dead == {d \in Drain : ProcessOf[d] = p}
<1>0. Typed
  BY DEF Core
<1>1. /\ drain' = [d \in Drain |-> IF d \in dead THEN "dead" ELSE drain[d]]
      /\ pass' = [d \in Drain |-> IF d \in dead THEN IdlePass ELSE pass[d]]
      /\ handler' = [t \in Token |->
           IF t \in Live /\ handler[t].drain \in dead THEN Nil ELSE handler[t]]
      /\ UNCHANGED <<row, adoptions, faults, lapses, resubmits, stray>>
  BY DEF Crash, history
<1> HIDE DEF dead
<1>2. LettingGo
  <2>1. \A e \in Event : RowLet(e)
    BY <1>1 DEF RowLet
  <2>2. \A c \in Drain : PassLet(c)
    BY <1>1, IdlePassType DEF PassLet
  <2>3. /\ drain' \in [Drain -> {"new", "up", "aborted", "disposed", "dead"}]
        /\ \A c \in Drain : drain'[c] = drain[c] \/ drain'[c] \notin {"up", "new"}
    BY <1>0, <1>1 DEF Typed
  <2>4. \A t \in Token : \/ handler'[t] = handler[t]
                         \/ t \in Live /\ Loosened(handler[t], handler'[t])
    BY <1>1 DEF Loosened
  <2>5. handler' = [t \in Token |-> handler'[t]] /\ pass' = [d \in Drain |-> pass'[d]]
    BY <1>1
  <2> QED BY <1>0, <1>1, <2>1, <2>2, <2>3, <2>4, <2>5 DEF LettingGo, Typed
<1>3. StillAttended
  <2> SUFFICES ASSUME NEW e \in Event, row[e].status = "claimed", drain'[row[e].owner] = "up"
               PROVE  /\ row[e].token \in Live /\ handler[row[e].token].active =>
                           row[e].token \in Live' /\ handler'[row[e].token].active
                      /\ pass'[row[e].owner] = pass[row[e].owner]
    BY DEF StillAttended
  <2>1. row[e].owner \in Drain /\ row[e].token \in Token
    BY DEF Core, RowsSound, RowSound
  <2>2. row[e].owner \notin dead
    BY <1>1, <2>1
  <2>3. row[e].token \in Live => handler[row[e].token].drain \notin dead
    BY <2>2 DEF Core, TokensMatch
  <2>4. row[e].token \in Live => handler'[row[e].token] = handler[row[e].token]
    BY <1>1, <2>1, <2>3
  <2>5. pass'[row[e].owner] = pass[row[e].owner]
    BY <1>1, <2>1, <2>2
  <2> QED BY <2>4, <2>5 DEF Live
<1>4. StillLeased
  BY <1>1 DEF StillLeased
<1>5. AdoptionIsDurable'
  BY <1>1 DEF Core, AdoptionIsDurable
<1> QED BY <1>2, <1>3, <1>4, <1>5, LettingGoKeepsCore

\* What a row becomes when its claim leaves it.
LEMMA LetGoRows ==
  ASSUME NEW r \in RowType,
         NEW s \in {Completed(r), Released(r), Returned(r), Recovered(r), Failed(r)}
  PROVE  s \in RowType /\ RowSound(s) /\ s.status # "claimed"
<1> DEFINE u == Unclaimed(r)
<1>1. u \in RowType /\ u.token = Nil /\ u.owner = Nil /\ ~u.fresh
  BY DEF Unclaimed, RowType
<1>2. PICK k \in 0 .. MaxAttempts : k = More(r.attempts)
  <2>1. r.attempts \in 0 .. MaxAttempts
    BY DEF RowType
  <2> QED BY <2>1, BoundAssumption DEF More
<1>3. PICK a \in BOOLEAN : a = r.lastError
  BY DEF RowType
<1>4. \/ s = [AbsentRow EXCEPT !.status = "completed"]
      \/ s = [u EXCEPT !.status = "pending", !.attempts = k, !.lastError = TRUE, !.delayed = TRUE]
      \/ s = [u EXCEPT !.status = "pending"]
      \/ s = [u EXCEPT !.status = "pending", !.attempts = k, !.delayed = a]
      \/ s = [u EXCEPT !.status = "failed", !.delayed = FALSE]
  BY <1>2, <1>3 DEF Completed, Released, Returned, Recovered, Failed
<1> HIDE DEF u
<1>5. CASE s = [AbsentRow EXCEPT !.status = "completed"]
  BY <1>5, AbsentRowType
<1>6. CASE s # [AbsentRow EXCEPT !.status = "completed"]
  <2>1. s \in RowType /\ s.status \in {"pending", "failed"} /\ s.token = u.token
        /\ s.owner = u.owner /\ s.fresh = u.fresh
    BY <1>1, <1>4, <1>6 DEF RowType
  <2> QED BY <1>1, <2>1 DEF RowSound
<1> QED BY <1>5, <1>6

\* A claimed event has not been adopted.
LEMMA ClaimedNotAdopted ==
  ASSUME Core, NEW e \in Event, row[e].status # "completed"
  PROVE  adoptions[e] = 0
  BY DEF Core, AdoptionIsDurable, Typed

\* recoverStaleClaims passes by what a drain that is up has the lease of.
LEMMA LeaseIsRespected ==
  ASSUME Core, NEW c \in Drain, NEW d \in Drain, NEW e \in Event, NEW t,
         drain[c] = "up", Leased(c, e, t)
  PROVE  ~Recoverable(d, e)
  BY DEF Leased, Recoverable, OwnerLive, ProcessLive

\* drainOnce begins: it recovers claims and lists what is pending.
LEMMA PassBeginsOK ==
  ASSUME Core, NEW d \in Drain, PassBegins(d)
  PROVE  Core'
<1> DEFINE recovered == [e \in Event |-> IF Recoverable(d, e) THEN Recovered(row[e]) ELSE row[e]]
           cs == {e \in Event : recovered[e].status = "pending"}
           q == [IdlePass EXCEPT !.at = "listed", !.candidates = cs]
<1>0. Typed
  BY DEF Core
<1>1. /\ drain[d] # "new" /\ pass[d].at = "idle" /\ row' = recovered
      /\ pass' = [pass EXCEPT ![d] = q]
      /\ UNCHANGED <<drain, handler, adoptions, faults, lapses, resubmits, stray>>
  BY DEF PassBegins, history
<1>2. q \in PassType /\ q.at = "listed" /\ q.token = Nil
  <2>1. cs \in SUBSET Event
    OBVIOUS
  <2> HIDE DEF cs
  <2> QED BY <2>1 DEF IdlePass, PassType
<1> HIDE DEF q
<1>3. \A e \in Event : \/ row'[e] = row[e] /\ ~Recoverable(d, e)
                       \/ row'[e] = Recovered(row[e]) /\ Recoverable(d, e)
  BY <1>1
<1>4. row' = [e \in Event |-> row'[e]]
  BY <1>1
<1> HIDE DEF recovered
<1>5. \A e \in Event : RowLet(e)
  <2> SUFFICES ASSUME NEW e \in Event, row'[e] = Recovered(row[e]), Recoverable(d, e)
               PROVE  RowLet(e)
    BY <1>3 DEF RowLet
  <2>1. row[e] \in RowType
    BY <1>0 DEF Typed
  <2>2. row'[e] \in RowType /\ RowSound(row'[e]) /\ row'[e].status # "claimed"
    BY <2>1, LetGoRows
  <2> QED BY <2>2 DEF RowLet, Recoverable
<1>6. \A c \in Drain : (c # d => pass'[c] = pass[c]) /\ (c = d => pass'[c] = q)
  BY <1>0, <1>1 DEF Typed
<1>7. \A c \in Drain : PassLet(c)
  BY <1>1, <1>2, <1>6 DEF PassLet
<1>8. LettingGo
  BY <1>0, <1>1, <1>4, <1>5, <1>7 DEF LettingGo, Typed
<1>9. StillAttended
  <2> SUFFICES ASSUME NEW e \in Event, row[e].status = "claimed",
                      pass[row[e].owner].token = row[e].token
               PROVE  pass'[row[e].owner] = pass[row[e].owner]
    BY <1>1 DEF StillAttended, Live
  <2>1. row[e].owner \in Drain /\ row[e].token # Nil
    BY NilAssumption DEF Core, RowsSound, RowSound
  <2>2. pass[d].token = Nil
    BY <1>1 DEF Core, PassesSound
  <2> QED BY <1>6, <2>1, <2>2
<1>10. StillLeased
  <2>1. ASSUME NEW t \in Live, Holds(t), Leased(handler[t].drain, handler[t].event, t)
        PROVE  row'[handler[t].event] = row[handler[t].event]
    <3>1. handler[t].drain \in Drain /\ handler[t].event \in Event /\ drain[handler[t].drain] = "up"
      BY <1>0, <2>1, LiveType DEF Holds
    <3> QED BY <1>3, <2>1, <3>1, LeaseIsRespected
  <2>2. ASSUME NEW c \in Drain, pass[c].at = "claimed", drain[c] = "up",
               Leased(c, pass[c].event, pass[c].token)
        PROVE  row'[pass[c].event] = row[pass[c].event]
    <3>1. pass[c].event \in Event
      BY <2>2 DEF Core, PassesSound
    <3> QED BY <1>3, <2>2, <3>1, LeaseIsRespected
  <2> QED BY <2>1, <2>2 DEF StillLeased
<1>11. AdoptionIsDurable'
  <2> SUFFICES ASSUME NEW e \in Event, adoptions[e] > 0
               PROVE  row'[e].status = "completed" /\ adoptions[e] = 1
    BY <1>1 DEF AdoptionIsDurable
  <2>1. row[e].status = "completed" /\ adoptions[e] = 1
    BY DEF Core, AdoptionIsDurable
  <2>2. ~Recoverable(d, e)
    BY <2>1 DEF Recoverable
  <2> QED BY <1>3, <2>1, <2>2
<1> QED BY <1>8, <1>9, <1>10, <1>11, LettingGoKeepsCore

\* A write that reaches the database: the claim is settled, or had been lost.
LEMMA WriteOutcome ==
  ASSUME NEW h \in HandlerType, HandlerSound(h), h.settle # "none", NEW g,
         \/ g = [h EXCEPT !.settle = "none", !.tries = 0,
                   !.call = IF @ = "waiting" THEN "lost" ELSE @]
         \/ g = [RemoveActive(h) EXCEPT !.settle = "none", !.tries = 0, !.phase = "settled",
                   !.call = IF @ = "waiting" THEN "done" ELSE @]
  PROVE  Loosened(h, Kept(g))
<1>1. CASE g = [h EXCEPT !.settle = "none", !.tries = 0,
                   !.call = IF @ = "waiting" THEN "lost" ELSE @]
  <2>1. g = GivesUp(h)
    BY <1>1 DEF GivesUp
  <2>2. HandlerKept(h, Kept(g))
    BY <2>1, GivesUpKept
  <2> QED BY <2>2 DEF HandlerKept, Loosened
<1>2. CASE g = [RemoveActive(h) EXCEPT !.settle = "none", !.tries = 0, !.phase = "settled",
                   !.call = IF @ = "waiting" THEN "done" ELSE @]
  <2> DEFINE a == RemoveActive(h)
  <2>1. /\ a \in HandlerType /\ a.event = h.event /\ a.drain = h.drain
        /\ ~a.active /\ ~a.occupiesLane
        /\ a.over = h.over /\ a.guillotined = h.guillotined /\ a.superseded = h.superseded
    BY RemoveActiveFields
  <2>2. PICK c : c = IF a.call = "waiting" THEN "done" ELSE a.call
    OBVIOUS
  <2> HIDE DEF a
  <2>3. c \in {"none", "lost", "done"} /\ 0 \in 0 .. WriteAttempts
    BY <2>1, <2>2, BoundAssumption DEF HandlerType
  <2>4. g = [a EXCEPT !.settle = "none", !.tries = 0, !.phase = "settled", !.call = c]
    BY <1>2, <2>2 DEF a
  <2>5. /\ g \in HandlerType /\ g.event = a.event /\ g.drain = a.drain
        /\ g.active = a.active /\ g.occupiesLane = a.occupiesLane
        /\ g.over = a.over /\ g.guillotined = a.guillotined /\ g.superseded = a.superseded
        /\ g.settle = "none" /\ g.call = c
    BY <2>1, <2>3, <2>4 DEF HandlerType
  <2>6. HandlerSound(g)
    BY <2>1, <2>3, <2>5 DEF HandlerSound, Closed
  <2>7. Kept(g) = Nil \/ Kept(g) = g
    BY DEF Kept
  <2> QED BY <2>1, <2>5, <2>6, <2>7 DEF Loosened
<1> QED BY <1>1, <1>2

\* The token of a claimed row is that of the handler that owns it.
LEMMA OwnsByToken ==
  ASSUME Core, NEW t \in Live, NEW e \in Event, row[e].status = "claimed", row[e].token = t
  PROVE  Owns(t) /\ handler[t].event = e
  BY DEF Core, TokensMatch, Owns

\* commitClaimWriteWithRetry: a write commits.
LEMMA WriteCommitsOK ==
  ASSUME Core, NEW t \in Token, WriteCommits(t)
  PROVE  Core'
<1> DEFINE h == handler[t]
           settled == [RemoveActive(h) EXCEPT !.settle = "none", !.tries = 0, !.phase = "settled",
                         !.call = IF @ = "waiting" THEN "done" ELSE @]
           lost == [h EXCEPT !.settle = "none", !.tries = 0,
                      !.call = IF @ = "waiting" THEN "lost" ELSE @]
           g == IF h.settle = "complete" /\ ~Owns(t) THEN lost ELSE settled
           e == h.event
           s == IF h.settle = "complete" THEN Completed(row[e])
                ELSE IF h.settle = "release" THEN Released(row[e]) ELSE Failed(row[e])
<1>0. Typed
  BY DEF Core
<1>1. /\ t \in Live /\ h.settle # "none"
      /\ UNCHANGED <<drain, pass, faults, lapses, resubmits, stray>>
  BY DEF WriteCommits, history
<1>2. handler' = [handler EXCEPT ![t] = Kept(g)] /\ adoptions' = Reported(h, g)
  BY DEF WriteCommits, LosesAdoption
<1>3. row' = IF ~Owns(t) THEN row ELSE [row EXCEPT ![e] = s]
  BY <1>0 DEF WriteCommits, Typed
<1>4. h \in HandlerType /\ HandlerSound(h) /\ e \in Event
  BY <1>1, LiveSound
<1>5. Loosened(h, Kept(g))
  <2>1. g = lost \/ g = settled
    OBVIOUS
  <2> HIDE DEF h, g
  <2> QED BY <1>1, <1>4, <2>1, WriteOutcome
<1>6. Owns(t) => row[e].status = "claimed" /\ row[e].token = t
  BY DEF Owns
<1>7. row[e] \in RowType
  BY <1>0, <1>4 DEF Typed
<1>8. s \in RowType /\ RowSound(s) /\ s.status # "claimed"
  BY <1>7, LetGoRows
<1>9. /\ \A f \in Event : f # e => row'[f] = row[f]
      /\ Owns(t) => row'[e] = s
      /\ ~Owns(t) => row' = row
      /\ row' = [f \in Event |-> row'[f]]
  <2> HIDE DEF e, s
  <2> QED BY <1>0, <1>3, <1>4 DEF Typed
<1>10. \A u \in Token : (u # t => handler'[u] = handler[u]) /\ (u = t => handler'[u] = Kept(g))
  BY <1>0, <1>2 DEF Typed
<1>11. handler' = [u \in Token |-> handler'[u]]
  BY <1>0, <1>2 DEF Typed
<1>12. g = settled => ~g.active
  <2>1. RemoveActive(h) \in HandlerType /\ ~RemoveActive(h).active
    BY <1>4, RemoveActiveFields
  <2> QED BY <2>1 DEF HandlerType
<1>13. Owns(t) => g = settled
  OBVIOUS
<1>14. g.call = "done" /\ h.call # "done" => h.call = "waiting" /\ Owns(t) /\ h.settle = "complete"
  <2>1. h.call = "waiting" => h.settle = "complete"
    <3> HIDE DEF h
    <3> QED BY <1>4 DEF HandlerSound
  <2>2. lost.call = IF h.call = "waiting" THEN "lost" ELSE h.call
    <3> HIDE DEF h
    <3> QED BY <1>4 DEF HandlerType
  <2>3. settled.call = IF h.call = "waiting" THEN "done" ELSE h.call
    <3> DEFINE a == RemoveActive(h)
    <3>1. a \in HandlerType /\ a.call = h.call
      BY <1>4, RemoveActiveFields
    <3>2. settled = [a EXCEPT !.settle = "none", !.tries = 0, !.phase = "settled",
                        !.call = IF @ = "waiting" THEN "done" ELSE @]
      OBVIOUS
    <3> HIDE DEF a, settled, h
    <3> QED BY <3>1, <3>2 DEF HandlerType
  <2>4. g = IF h.settle = "complete" /\ ~Owns(t) THEN lost ELSE settled
    OBVIOUS
  <2> HIDE DEF g, lost, settled, h
  <2> QED BY <2>1, <2>2, <2>3, <2>4
<1> HIDE DEF g, settled, lost, s, h, e
<1>15. adoptions' = adoptions
       \/ /\ Owns(t) /\ h.settle = "complete"
          /\ adoptions' = [adoptions EXCEPT ![e] = IF @ < 2 THEN @ + 1 ELSE @]
  BY <1>2, <1>14 DEF Reported, e
<1>16. Owns(t) => adoptions[e] = 0
  BY <1>4, <1>6, ClaimedNotAdopted
<1>17. adoptions' = adoptions
       \/ /\ Owns(t) /\ h.settle = "complete" /\ adoptions' = [adoptions EXCEPT ![e] = 1]
  BY <1>0, <1>4, <1>15, <1>16 DEF Typed
<1>18. LettingGo
  <2>1. \A f \in Event : RowLet(f)
    BY <1>6, <1>8, <1>9 DEF RowLet
  <2>2. \A d \in Drain : PassLet(d)
    BY <1>1 DEF PassLet
  <2>3. \A u \in Token : \/ handler'[u] = handler[u]
                         \/ u \in Live /\ Loosened(handler[u], handler'[u])
    BY <1>1, <1>5, <1>10 DEF h
  <2>4. adoptions' \in [Event -> 0 .. 2]
    BY <1>0, <1>4, <1>17 DEF Typed
  <2> QED BY <1>0, <1>1, <1>9, <1>11, <2>1, <2>2, <2>3, <2>4 DEF LettingGo, Typed
<1>19. StillAttended
  <2> SUFFICES ASSUME NEW f \in Event, row[f].status = "claimed", row'[f] = row[f],
                      row[f].token \in Live, handler[row[f].token].active
               PROVE  row[f].token \in Live' /\ handler'[row[f].token].active
    BY <1>1 DEF StillAttended
  <2>1. row[f].token \in Token
    BY DEF Live
  <2>2. CASE row[f].token # t
    BY <1>10, <2>1, <2>2 DEF Live
  <2>3. CASE row[f].token = t
    <3>1. Owns(t) /\ f = e
      BY <1>1, <2>3, OwnsByToken DEF e, h
    <3> QED BY <1>8, <1>9, <3>1
  <2> QED BY <2>2, <2>3
<1>20. StillLeased
  <2>1. ASSUME NEW u \in Live, Leased(handler[u].drain, handler[u].event, u), u \in Live', Holds(u)'
        PROVE  row'[handler[u].event] = row[handler[u].event]
    <3>0. u \in Token /\ handler[u].event \in Event
      BY <1>0, LiveType
    <3>1. CASE u = t
      <4>1. ~Owns(t)
        <5> SUFFICES ASSUME Owns(t) PROVE FALSE
          OBVIOUS
        <5>1. ~g.active
          BY <1>12, <1>13
        <5>2. handler'[t] = g
          BY <1>10, <2>1, <3>1 DEF Kept, Live
        <5> QED BY <2>1, <3>1, <5>1, <5>2 DEF Holds
      <4> QED BY <1>9, <4>1
    <3>2. CASE u # t
      <4>1. row[handler[u].event].token = u
        BY <2>1 DEF Leased
      <4>2. handler[u].event # e \/ ~Owns(t)
        BY <1>6, <3>2, <4>1
      <4> QED BY <1>9, <3>0, <4>2
    <3> QED BY <3>1, <3>2
  <2>2. ASSUME NEW d \in Drain, pass[d].at = "claimed", Leased(d, pass[d].event, pass[d].token)
        PROVE  row'[pass[d].event] = row[pass[d].event]
    <3>1. pass[d].event \in Event /\ pass[d].token # t
      BY <1>1, <2>2 DEF Core, PassesSound, Live
    <3>2. pass[d].event # e \/ ~Owns(t)
      BY <1>6, <2>2, <3>1 DEF Leased
    <3> QED BY <1>9, <3>1, <3>2
  <2> QED BY <2>1, <2>2 DEF StillLeased
<1>21. AdoptionIsDurable'
  <2> SUFFICES ASSUME NEW f \in Event, adoptions'[f] > 0
               PROVE  row'[f].status = "completed" /\ adoptions'[f] = 1
    BY DEF AdoptionIsDurable
  <2>1. CASE adoptions' = adoptions
    <3>1. row[f].status = "completed" /\ adoptions[f] = 1
      BY <2>1 DEF Core, AdoptionIsDurable
    <3>2. row'[f] = row[f]
      BY <1>6, <1>9, <3>1
    <3> QED BY <2>1, <3>1, <3>2
  <2>2. CASE adoptions' # adoptions
    <3>1. Owns(t) /\ h.settle = "complete" /\ adoptions' = [adoptions EXCEPT ![e] = 1]
      BY <1>17, <2>2
    <3>2. s.status = "completed"
      BY <3>1, AbsentRowType DEF s, Completed
    <3>3. adoptions'[e] = 1 /\ (f # e => adoptions'[f] = adoptions[f])
      BY <1>0, <1>4, <3>1 DEF Typed
    <3>4. CASE f = e
      BY <1>9, <3>1, <3>2, <3>3, <3>4
    <3>5. CASE f # e
      BY <1>9, <3>3, <3>5 DEF Core, AdoptionIsDurable
    <3> QED BY <3>4, <3>5
  <2> QED BY <2>1, <2>2
<1> QED BY <1>18, <1>19, <1>20, <1>21, LettingGoKeepsCore

-----------------------------------------------------------------------------
(* Claims are made and started *)

\* createChannelIngressDrain
LEMMA StartDrainOK ==
  ASSUME Core, NEW d \in Drain, StartDrain(d)
  PROVE  Core'
<1>0. Typed
  BY DEF Core
<1>1. /\ drain[d] = "new" /\ drain' = [drain EXCEPT ![d] = "up"]
      /\ UNCHANGED <<row, pass, handler, adoptions, faults, lapses, resubmits, stray>>
  BY DEF StartDrain, history
<1>2. /\ pass[d].at = "idle" /\ (\A t \in Live : handler[t].drain # d)
      /\ \A e \in Event : row[e].status = "claimed" => row[e].owner # d
  BY <1>1 DEF Core, NewDrainsIdle
<1>3. drain'[d] = "up" /\ \A c \in Drain : c # d => drain'[c] = drain[c]
  BY <1>0, <1>1 DEF Typed
<1>4. Live' = Live
  BY <1>1 DEF Live
<1>5. Typed'
  BY <1>0, <1>1 DEF Typed
<1>6. RowsSound' /\ HandlersSound' /\ PassesSound' /\ PassesApart' /\ TokensMatch'
      /\ LaneSerialized' /\ AdoptionIsDurable'
  BY <1>1, <1>4 DEF Core, RowsSound, HandlersSound, PassesSound, PassesApart, TokensMatch,
     LaneSerialized, AdoptionIsDurable
<1>7. NewDrainsIdle'
  BY <1>1, <1>3, <1>4 DEF Core, NewDrainsIdle
<1>8. LeasesKept'
  <2> SUFFICES ASSUME lapses = 0
               PROVE  /\ \A t \in Live : Holds(t)' => Leased(handler[t].drain, handler[t].event, t)
                      /\ \A c \in Drain : pass[c].at = "claimed" /\ drain'[c] = "up" =>
                           Leased(c, pass[c].event, pass[c].token)
    BY <1>1, <1>4 DEF LeasesKept, Leased
  <2>1. ASSUME NEW t \in Live, Holds(t)'
        PROVE  Leased(handler[t].drain, handler[t].event, t)
    <3>1. handler[t].drain \in Drain /\ handler[t].drain # d
      BY <1>0, <1>2, LiveType
    <3>2. Holds(t)
      BY <1>1, <1>3, <2>1, <3>1 DEF Holds
    <3> QED BY <3>2 DEF Core, LeasesKept
  <2>2. ASSUME NEW c \in Drain, pass[c].at = "claimed", drain'[c] = "up"
        PROVE  Leased(c, pass[c].event, pass[c].token)
    BY <1>2, <1>3, <2>2 DEF Core, LeasesKept
  <2> QED BY <2>1, <2>2
<1>9. ClaimAttended'
  <2> SUFFICES ASSUME NEW e \in Event, row[e].status = "claimed", drain'[row[e].owner] = "up"
               PROVE  \/ pass[row[e].owner].token = row[e].token
                      \/ row[e].token \in Live /\ handler[row[e].token].active
                      \/ e \in stray
    BY <1>1, <1>4 DEF ClaimAttended
  <2>1. row[e].owner \in Drain /\ row[e].owner # d
    BY <1>2 DEF Core, RowsSound, RowSound
  <2> QED BY <1>3, <2>1 DEF Core, ClaimAttended
<1> QED BY <1>5, <1>6, <1>7, <1>8, <1>9 DEF Core

\* The pass claims the next event under a new token.
LEMMA ClaimNextOK ==
  ASSUME Core, NEW d \in Drain, ClaimNext(d)
  PROVE  Core'
<1>0. Typed
  BY DEF Core
<1>1. /\ pass[d].at = "claim" /\ drain[d] = "up"
      /\ UNCHANGED <<drain, handler, adoptions, faults, lapses, resubmits>>
  BY DEF ClaimNext, Stopped
<1>2. PICK e \in Claimable(d), t \in FreshToken :
        /\ row' = [row EXCEPT ![e] = Claimed(row[e], t, d)]
        /\ pass' = [pass EXCEPT ![d].at = "claimed", ![d].event = e, ![d].token = t]
        /\ stray' = stray \ {e}
  BY DEF ClaimNext
<1>3. e \in Event /\ row[e].status = "pending"
  BY <1>0 DEF Claimable, Typed, PassType
<1>4. /\ t \in Token /\ handler[t] = Nil /\ (\A f \in Event : row[f].token # t)
      /\ \A c \in Drain : pass[c].token # t
  BY DEF FreshToken
<1> DEFINE r == Claimed(row[e], t, d)
           q == [pass[d] EXCEPT !.at = "claimed", !.event = e, !.token = t]
<1>5. r \in RowType /\ r.status = "claimed" /\ r.token = t /\ r.owner = d /\ r.fresh
  <2>1. row[e] \in RowType
    BY <1>0, <1>3 DEF Typed
  <2> QED BY <1>4, <2>1 DEF Claimed, RowType
<1>6. q \in PassType /\ q.at = "claimed" /\ q.event = e /\ q.token = t
  <2>1. pass[d] \in PassType
    BY <1>0 DEF Typed
  <2> QED BY <1>3, <1>4, <2>1 DEF PassType
<1>7. /\ row'[e] = r /\ (\A f \in Event : f # e => row'[f] = row[f])
      /\ row' = [f \in Event |-> row'[f]]
  BY <1>0, <1>2, <1>3 DEF Typed
<1>8. /\ pass'[d] = q /\ (\A c \in Drain : c # d => pass'[c] = pass[c])
      /\ pass' = [c \in Drain |-> pass'[c]]
  BY <1>0, <1>2 DEF Typed
<1> HIDE DEF r, q
<1>9. Live' = Live /\ t \notin Live
  BY <1>1, <1>4 DEF Live
<1>10. pass[d].token = Nil
  BY <1>1 DEF Core, PassesSound
<1>11. Typed'
  <2>1. row' \in [Event -> RowType]
    BY <1>0, <1>5, <1>7 DEF Typed
  <2>2. pass' \in [Drain -> PassType]
    BY <1>0, <1>6, <1>8 DEF Typed
  <2>3. stray' \in SUBSET Event
    BY <1>0, <1>2 DEF Typed
  <2> QED BY <1>0, <1>1, <2>1, <2>2, <2>3 DEF Typed
<1>12. RowsSound' /\ HandlersSound'
  <2>1. RowSound(r)
    BY <1>4, <1>5 DEF RowSound
  <2>2. RowsSound'
    BY <1>7, <2>1 DEF Core, RowsSound
  <2>3. HandlersSound'
    BY <1>1, <1>9 DEF Core, HandlersSound
  <2> QED BY <2>2, <2>3
<1>13. PassesSound' /\ PassesApart'
  <2>1. PassesSound'
    BY <1>1, <1>3, <1>4, <1>6, <1>8 DEF Core, PassesSound
  <2>2. PassesApart'
    BY <1>4, <1>6, <1>8 DEF Core, PassesApart
  <2> QED BY <2>1, <2>2
<1>14. NewDrainsIdle'
  BY <1>1, <1>5, <1>7, <1>8, <1>9 DEF Core, NewDrainsIdle
<1>15. TokensMatch'
  <2> SUFFICES ASSUME NEW f \in Event, row'[f].status = "claimed"
               PROVE  /\ row'[f].token \in Live =>
                           handler[row'[f].token].event = f /\ handler[row'[f].token].drain = row'[f].owner
                      /\ \A c \in Drain : pass'[c].token = row'[f].token =>
                           pass'[c].event = f /\ row'[f].owner = c
    BY <1>1, <1>9 DEF TokensMatch
  <2>1. CASE f = e
    BY <1>4, <1>5, <1>6, <1>7, <1>8, <1>9, <2>1
  <2>2. CASE f # e
    BY <1>4, <1>6, <1>7, <1>8, <2>2 DEF Core, TokensMatch
  <2> QED BY <2>1, <2>2
<1>16. LeasesKept'
  <2> SUFFICES ASSUME lapses = 0
               PROVE  /\ \A u \in Live : Holds(u) => Leased(handler[u].drain, handler[u].event, u)'
                      /\ \A c \in Drain : pass'[c].at = "claimed" /\ drain[c] = "up" =>
                           Leased(c, pass[c].event, pass[c].token)'
    BY <1>1, <1>9 DEF LeasesKept, Holds
  <2>1. ASSUME NEW u \in Live, Holds(u)
        PROVE  Leased(handler[u].drain, handler[u].event, u)'
    <3>1. handler[u].event \in Event /\ Leased(handler[u].drain, handler[u].event, u)
      BY <1>0, <2>1, LiveType DEF Core, LeasesKept
    <3>2. handler[u].event # e
      BY <1>3, <3>1 DEF Leased
    <3> QED BY <1>1, <1>7, <3>1, <3>2 DEF Leased
  <2>2. ASSUME NEW c \in Drain, pass'[c].at = "claimed", drain[c] = "up"
        PROVE  Leased(c, pass[c].event, pass[c].token)'
    <3>1. CASE c = d
      BY <1>5, <1>6, <1>7, <1>8, <3>1 DEF Leased
    <3>2. CASE c # d
      <4>1. pass'[c] = pass[c] /\ Leased(c, pass[c].event, pass[c].token) /\ pass[c].event \in Event
        BY <1>8, <2>2, <3>2 DEF Core, LeasesKept, PassesSound
      <4>2. pass[c].event # e
        BY <1>3, <4>1 DEF Leased
      <4> QED BY <1>7, <4>1, <4>2 DEF Leased
    <3> QED BY <3>1, <3>2
  <2> QED BY <2>1, <2>2
<1>17. ClaimAttended'
  <2> SUFFICES ASSUME NEW f \in Event, row'[f].status = "claimed", drain[row'[f].owner] = "up"
               PROVE  \/ pass'[row'[f].owner].token = row'[f].token
                      \/ row'[f].token \in Live /\ handler[row'[f].token].active
                      \/ f \in stray'
    BY <1>1, <1>9 DEF ClaimAttended
  <2>1. CASE f = e
    BY <1>5, <1>6, <1>7, <1>8, <2>1
  <2>2. CASE f # e
    <3>1. row'[f] = row[f] /\ row[f].owner \in Drain /\ row[f].token # Nil
      BY <1>7, <2>2, NilAssumption DEF Core, RowsSound, RowSound
    <3>2. \/ pass[row[f].owner].token = row[f].token
          \/ row[f].token \in Live /\ handler[row[f].token].active
          \/ f \in stray
      BY <3>1 DEF Core, ClaimAttended
    <3> QED BY <1>2, <1>8, <1>10, <2>2, <3>1, <3>2
  <2> QED BY <2>1, <2>2
<1>18. LaneSerialized'
  BY <1>1, <1>9 DEF Core, LaneSerialized
<1>19. AdoptionIsDurable'
  BY <1>1, <1>3, <1>7 DEF Core, AdoptionIsDurable
<1> QED BY <1>11, <1>12, <1>13, <1>14, <1>15, <1>16, <1>17, <1>18, <1>19 DEF Core

\* A handler that has just started is sound.
LEMMA StartedType ==
  ASSUME NEW e \in Event, NEW d \in Drain, NEW phase \in {"dispatching", "deferred"}
  PROVE  LET h == Started(e, d, phase) IN
         /\ h \in HandlerType /\ HandlerSound(h) /\ h.event = e /\ h.drain = d
         /\ h.active /\ h.occupiesLane
<1>1. 0 \in 0 .. WriteAttempts
  BY BoundAssumption
<1>2. Started(e, d, phase) \in HandlerType
  BY <1>1 DEF Started, HandlerType
<1> QED BY <1>2 DEF Started, HandlerSound

\* What the pass is when its claim has been started or given back.
LEMMA HandledType ==
  ASSUME Core, NEW d \in Drain, pass[d].at = "claimed"
  PROVE  ClaimHandled(d) \in PassType /\ ClaimHandled(d).at = "claim" /\ ClaimHandled(d).token = Nil
<1>1. pass[d] \in PassType /\ pass[d].event \in Event
  BY DEF Core, Typed, PassesSound
<1>2. PICK bl \in SUBSET Lane : bl = pass[d].blocked \cup {LaneOf[pass[d].event]}
  BY <1>1 DEF PassType, Lane
<1> DEFINE q == [pass[d] EXCEPT !.at = "claim", !.event = Nil, !.token = Nil, !.blocked = bl]
<1>3. q \in PassType /\ q.at = "claim" /\ q.token = Nil
  BY <1>1 DEF PassType
<1> QED BY <1>2, <1>3 DEF ClaimHandled

\* Who has claimed an event has it under a token of its own.
LEMMA ClaimInHand ==
  ASSUME Core, NEW d \in Drain, pass[d].at = "claimed"
  PROVE  /\ pass[d].event \in Event /\ pass[d].token \in Token /\ pass[d].token # Nil
         /\ handler[pass[d].token] = Nil /\ pass[d].token \notin Live /\ drain[d] # "new"
         /\ \A c \in Drain : c # d => pass[c].token # pass[d].token
         /\ \A f \in Event : row[f].token = pass[d].token =>
              row[f].status = "claimed" /\ f = pass[d].event /\ row[f].owner = d
<1>1. /\ pass[d].event \in Event /\ pass[d].token \in Token /\ pass[d].token # Nil
      /\ handler[pass[d].token] = Nil /\ pass[d].token \notin Live
  BY NilAssumption DEF Core, PassesSound, Live
<1>2. drain[d] # "new"
  BY DEF Core, NewDrainsIdle
<1>3. \A c \in Drain : c # d => pass[c].token # pass[d].token
  BY <1>1 DEF Core, PassesApart
<1>4. ASSUME NEW f \in Event, row[f].token = pass[d].token
      PROVE  row[f].status = "claimed" /\ f = pass[d].event /\ row[f].owner = d
  <2>1. row[f].status = "claimed"
    BY <1>1, <1>4 DEF Core, RowsSound, RowSound
  <2> QED BY <1>4, <2>1 DEF Core, TokensMatch
<1> QED BY <1>1, <1>2, <1>3, <1>4

\* The claim goes back unused.
LEMMA ReturnClaimedOK ==
  ASSUME Core, NEW d \in Drain, ReturnClaimed(d)
  PROVE  Core'
<1> DEFINE e == pass[d].event
           t == pass[d].token
<1>0. Typed
  BY DEF Core
<1>1. pass[d].at = "claimed" /\ UNCHANGED <<drain, handler, adoptions, faults, lapses, resubmits, stray>>
  BY DEF ReturnClaimed, history
<1>2. /\ e \in Event /\ t \in Token /\ handler[t] = Nil /\ t # Nil /\ t \notin Live /\ drain[d] # "new"
      /\ \A c \in Drain : c # d => pass[c].token # t
      /\ \A f \in Event : row[f].token = t => row[f].status = "claimed" /\ f = e /\ row[f].owner = d
  BY <1>1, ClaimInHand
<1>3. PICK q : pass' = [pass EXCEPT ![d] = q] /\ (q = IdlePass \/ q = ClaimHandled(d))
  BY DEF ReturnClaimed
<1>4. q \in PassType /\ q.at # "claimed" /\ q.token = Nil
  BY <1>1, <1>3, HandledType, IdlePassType
<1>5. row' = IF row[e].token = t THEN [row EXCEPT ![e] = Returned(row[e])] ELSE row
  BY <1>0 DEF ReturnClaimed, Typed
<1>6. row[e] \in RowType
  BY <1>0, <1>2 DEF Typed
<1>7. /\ pass'[d] = q /\ (\A c \in Drain : c # d => pass'[c] = pass[c])
      /\ pass' = [c \in Drain |-> pass'[c]]
  BY <1>0, <1>3 DEF Typed
<1>8. row[e].token = t => /\ Returned(row[e]) \in RowType /\ RowSound(Returned(row[e]))
                          /\ Returned(row[e]).status # "claimed"
  BY <1>6, LetGoRows
<1> HIDE DEF e, t
<1>9. Live' = Live
  BY <1>1 DEF Live
<1>10. /\ \A f \in Event : f # e => row'[f] = row[f]
       /\ row[e].token = t => row'[e] = Returned(row[e])
       /\ row[e].token # t => row'[e] = row[e]
       /\ row' = [f \in Event |-> row'[f]]
  BY <1>0, <1>2, <1>5 DEF Typed
<1>11. \A f \in Event : RowLet(f)
  BY <1>2, <1>8, <1>10 DEF RowLet
<1>12. \A c \in Drain : PassLet(c)
  BY <1>1, <1>2, <1>4, <1>7 DEF PassLet
<1>13. LettingGo
  BY <1>0, <1>1, <1>7, <1>10, <1>11, <1>12 DEF LettingGo, Typed
<1>14. StillAttended
  <2> SUFFICES ASSUME NEW f \in Event, row[f].status = "claimed", row'[f] = row[f],
                      pass[row[f].owner].token = row[f].token
               PROVE  pass'[row[f].owner] = pass[row[f].owner]
    BY <1>1, <1>9 DEF StillAttended
  <2>1. row[f].owner \in Drain
    BY DEF Core, RowsSound, RowSound
  <2>2. CASE row[f].owner # d
    BY <1>7, <2>1, <2>2
  <2>3. CASE row[f].owner = d
    <3>1. row[f].token = t /\ f = e
      BY <1>2, <2>3 DEF t
    <3> QED BY <1>8, <1>10, <3>1
  <2> QED BY <2>2, <2>3
<1>15. StillLeased
  <2>1. ASSUME NEW u \in Live, Leased(handler[u].drain, handler[u].event, u)
        PROVE  row'[handler[u].event] = row[handler[u].event]
    <3>1. handler[u].event \in Event /\ row[handler[u].event].token # t
      BY <1>0, <1>2, <2>1, LiveType DEF Leased
    <3> QED BY <1>10, <3>1
  <2>2. ASSUME NEW c \in Drain, pass[c].at = "claimed", Leased(c, pass[c].event, pass[c].token),
               pass'[c] = pass[c]
        PROVE  row'[pass[c].event] = row[pass[c].event]
    <3>1. c # d
      BY <1>4, <1>7, <2>2
    <3>2. pass[c].event \in Event /\ row[pass[c].event].token # t
      BY <1>2, <2>2, <3>1 DEF Core, PassesSound, Leased
    <3> QED BY <1>10, <3>2
  <2> QED BY <2>1, <2>2 DEF StillLeased
<1>16. AdoptionIsDurable'
  <2> SUFFICES ASSUME NEW f \in Event, adoptions[f] > 0
               PROVE  row'[f].status = "completed" /\ adoptions[f] = 1
    BY <1>1 DEF AdoptionIsDurable
  <2>1. row[f].status = "completed" /\ adoptions[f] = 1
    BY DEF Core, AdoptionIsDurable
  <2>2. row[f].token # t
    BY <1>2, <2>1
  <2> QED BY <1>10, <2>1, <2>2
<1> QED BY <1>13, <1>14, <1>15, <1>16, LettingGoKeepsCore

\* The claim could not be given back.
LEMMA ReturnFailsOK ==
  ASSUME Core, NEW d \in Drain, ReturnFails(d)
  PROVE  Core'
<1> DEFINE e == pass[d].event
           t == pass[d].token
<1>0. Typed
  BY DEF Core
<1>1. /\ pass[d].at = "claimed" /\ UNCHANGED <<row, drain, handler, adoptions, lapses, resubmits>>
      /\ pass' = [pass EXCEPT ![d] = IdlePass]
      /\ stray' = IF row[e].token = t THEN stray \cup {e} ELSE stray
      /\ faults' \in 0 .. MaxFaults
  BY <1>0, BoundAssumption DEF ReturnFails, Typed
<1>2. /\ e \in Event /\ t # Nil /\ drain[d] # "new"
      /\ \A f \in Event : row[f].token = t => f = e
  BY <1>1, ClaimInHand
<1> HIDE DEF e, t
<1>3. Live' = Live
  BY <1>1 DEF Live
<1>4. \A c \in Drain : (c # d => pass'[c] = pass[c]) /\ (c = d => pass'[c] = IdlePass)
  BY <1>0, <1>1 DEF Typed
<1>5. \A c \in Drain : PassLet(c)
  BY <1>1, <1>2, <1>4, IdlePassType DEF PassLet
<1>6. LettingGo
  BY <1>0, <1>1, <1>2, <1>5 DEF LettingGo, RowLet, Typed
<1>7. StillAttended
  <2> SUFFICES ASSUME NEW f \in Event, row[f].status = "claimed", f \notin stray',
                      pass[row[f].owner].token = row[f].token
               PROVE  pass'[row[f].owner] = pass[row[f].owner]
    BY <1>1, <1>3 DEF StillAttended
  <2>1. row[f].owner \in Drain
    BY DEF Core, RowsSound, RowSound
  <2>2. row[f].token # t
    BY <1>1, <1>2
  <2>3. row[f].owner # d
    BY <2>2 DEF t
  <2> QED BY <1>4, <2>1, <2>3
<1>8. StillLeased /\ AdoptionIsDurable'
  BY <1>1 DEF StillLeased, Core, AdoptionIsDurable
<1> QED BY <1>6, <1>7, <1>8, LettingGoKeepsCore

\* runClaimed
LEMMA StartClaimedOK ==
  ASSUME Core, NEW d \in Drain, StartClaimed(d)
  PROVE  Core'
<1> DEFINE e == pass[d].event
           t == pass[d].token
           q == ClaimHandled(d)
<1>0. Typed
  BY DEF Core
<1>1. /\ pass[d].at = "claimed" /\ MayStart(d, e) /\ pass' = [pass EXCEPT ![d] = q]
      /\ UNCHANGED <<row, drain, adoptions, faults, lapses, resubmits, stray>>
  BY DEF StartClaimed, history
<1>2. /\ e \in Event /\ t \in Token /\ handler[t] = Nil /\ t # Nil /\ t \notin Live
      /\ \A c \in Drain : c # d => pass[c].token # t
      /\ \A f \in Event : row[f].status = "claimed" /\ row[f].token = t => f = e /\ row[f].owner = d
  BY <1>1, ClaimInHand
<1>3. PICK phase \in {"dispatching", "deferred"} :
        handler' = [handler EXCEPT ![t] = Started(e, d, phase)]
  BY DEF StartClaimed
<1>4. q \in PassType /\ q.at # "claimed" /\ q.token = Nil
  BY <1>1, HandledType
<1> HIDE DEF q
<1>5. /\ pass'[d] = q /\ (\A c \in Drain : c # d => pass'[c] = pass[c])
      /\ pass' = [c \in Drain |-> pass'[c]]
  BY <1>0, <1>1 DEF Typed
<1> HIDE DEF e, t
<1> DEFINE h == Started(e, d, phase)
<1>6. /\ h \in HandlerType /\ HandlerSound(h) /\ h.event = e /\ h.drain = d
      /\ h.active /\ h.occupiesLane
  BY <1>2, StartedType
<1>7. handler' = [handler EXCEPT ![t] = h] /\ row' = row
  BY <1>1, <1>3
<1> HIDE DEF h
<1>8. handler'[t] = h /\ (\A u \in Token : u # t => handler'[u] = handler[u])
      /\ handler' = [u \in Token |-> handler'[u]]
  BY <1>0, <1>2, <1>7 DEF Typed
<1>9. Live' = Live \cup {t}
  BY <1>2, <1>6, <1>8, NoHandlerAssumption DEF Live
<1>10. \A u \in Live : u \in Token /\ u # t /\ handler'[u] = handler[u]
  BY <1>2, <1>8 DEF Live
<1>11. drain[d] = "up" /\ Owners(d, LaneOf[e]) = {}
  BY <1>1 DEF MayStart, Stopped
<1>12. Typed'
  <2>1. handler' \in [Token -> HandlerType \cup {Nil}]
    BY <1>0, <1>6, <1>8 DEF Typed
  <2>2. pass' \in [Drain -> PassType]
    BY <1>0, <1>4, <1>5 DEF Typed
  <2> QED BY <1>0, <1>1, <1>7, <2>1, <2>2 DEF Typed
<1>13. RowsSound' /\ HandlersSound'
  <2>1. RowsSound'
    BY <1>7 DEF Core, RowsSound
  <2>2. HandlersSound'
    BY <1>6, <1>8, <1>9, <1>10 DEF Core, HandlersSound
  <2> QED BY <2>1, <2>2
<1>14. PassesSound' /\ PassesApart'
  <2>1. PassesSound'
    BY <1>4, <1>5, <1>2, <1>8 DEF Core, PassesSound
  <2>2. PassesApart'
    BY <1>4, <1>5 DEF Core, PassesApart
  <2> QED BY <2>1, <2>2
<1>15. NewDrainsIdle'
  BY <1>1, <1>4, <1>5, <1>6, <1>7, <1>8, <1>9, <1>10, <1>11 DEF Core, NewDrainsIdle
<1>16. TokensMatch'
  <2> SUFFICES ASSUME NEW f \in Event, row[f].status = "claimed"
               PROVE  /\ row[f].token \in Live' =>
                           /\ handler'[row[f].token].event = f
                           /\ handler'[row[f].token].drain = row[f].owner
                      /\ \A c \in Drain : pass'[c].token = row[f].token =>
                           pass'[c].event = f /\ row[f].owner = c
    BY <1>7 DEF TokensMatch
  <2>1. row[f].token \in Token /\ row[f].token # Nil
    BY NilAssumption DEF Core, RowsSound, RowSound
  <2>2. row[f].token \in Live' =>
          handler'[row[f].token].event = f /\ handler'[row[f].token].drain = row[f].owner
    <3>1. CASE row[f].token = t
      BY <1>2, <1>6, <1>8, <3>1
    <3>2. CASE row[f].token # t
      BY <1>9, <1>10, <3>2 DEF Core, TokensMatch
    <3> QED BY <3>1, <3>2
  <2>3. \A c \in Drain : pass'[c].token = row[f].token => pass'[c].event = f /\ row[f].owner = c
    BY <1>4, <1>5, <2>1 DEF Core, TokensMatch
  <2> QED BY <2>2, <2>3
<1>17. LeasesKept'
  <2> SUFFICES ASSUME lapses = 0
               PROVE  /\ \A u \in Live' : Holds(u)' => Leased(handler'[u].drain, handler'[u].event, u)
                      /\ \A c \in Drain : pass'[c].at = "claimed" /\ drain[c] = "up" =>
                           Leased(c, pass'[c].event, pass'[c].token)
    BY <1>1, <1>7 DEF LeasesKept, Leased
  <2>1. ASSUME NEW u \in Live', Holds(u)'
        PROVE  Leased(handler'[u].drain, handler'[u].event, u)
    <3>1. CASE u = t
      <4>1. Leased(d, e, t)
        BY <1>1, <1>11 DEF Core, LeasesKept, e, t
      <4> QED BY <1>6, <1>8, <3>1, <4>1
    <3>2. CASE u # t
      <4>1. u \in Live /\ handler'[u] = handler[u]
        BY <1>9, <1>10, <3>2
      <4>2. Holds(u)
        BY <1>1, <2>1, <4>1 DEF Holds
      <4> QED BY <4>1, <4>2 DEF Core, LeasesKept
    <3> QED BY <3>1, <3>2
  <2>2. ASSUME NEW c \in Drain, pass'[c].at = "claimed", drain[c] = "up"
        PROVE  Leased(c, pass'[c].event, pass'[c].token)
    BY <1>4, <1>5, <2>2 DEF Core, LeasesKept
  <2> QED BY <2>1, <2>2
<1>18. ClaimAttended'
  <2> SUFFICES ASSUME NEW f \in Event, row[f].status = "claimed", drain[row[f].owner] = "up"
               PROVE  \/ pass'[row[f].owner].token = row[f].token
                      \/ row[f].token \in Live' /\ handler'[row[f].token].active
                      \/ f \in stray
    BY <1>1, <1>7 DEF ClaimAttended
  <2>1. row[f].owner \in Drain
    BY DEF Core, RowsSound, RowSound
  <2>2. \/ pass[row[f].owner].token = row[f].token
        \/ row[f].token \in Live /\ handler[row[f].token].active
        \/ f \in stray
    BY DEF Core, ClaimAttended
  <2>3. CASE row[f].token = t
    BY <1>6, <1>8, <1>9, <2>3
  <2>4. CASE row[f].token # t
    <3>1. row[f].owner # d \/ pass[row[f].owner].token # row[f].token
      BY <2>4 DEF t
    <3> QED BY <1>5, <1>9, <1>10, <2>1, <2>2, <3>1
  <2> QED BY <2>3, <2>4
<1>19. LaneSerialized'
  <2>1. ASSUME NEW u \in Live, handler[u].active, handler[u].occupiesLane, handler[u].drain = d,
               LaneOf[handler[u].event] = LaneOf[e]
        PROVE  FALSE
    BY <1>11, <2>1 DEF Owners
  <2> SUFFICES ASSUME NEW u \in Live', NEW v \in Live',
                      handler'[u].active, handler'[u].occupiesLane,
                      handler'[v].active, handler'[v].occupiesLane,
                      handler'[u].drain = handler'[v].drain,
                      LaneOf[handler'[u].event] = LaneOf[handler'[v].event]
               PROVE  u = v
    BY DEF LaneSerialized
  <2>2. CASE u = t /\ v # t
    BY <1>6, <1>8, <1>9, <1>10, <2>1, <2>2
  <2>3. CASE u # t /\ v = t
    BY <1>6, <1>8, <1>9, <1>10, <2>1, <2>3
  <2>4. CASE u # t /\ v # t
    <3>1. u \in Live /\ v \in Live /\ handler'[u] = handler[u] /\ handler'[v] = handler[v]
      BY <1>9, <1>10, <2>4
    <3> QED BY <3>1 DEF Core, LaneSerialized
  <2> QED BY <2>2, <2>3, <2>4
<1>20. AdoptionIsDurable'
  BY <1>1, <1>7 DEF Core, AdoptionIsDurable
<1> QED BY <1>12, <1>13, <1>14, <1>15, <1>16, <1>17, <1>18, <1>19, <1>20 DEF Core

-----------------------------------------------------------------------------
(* The theorems *)

\* The invariant holds at first.
LEMMA CoreAtFirst == Init => Core
<1> SUFFICES ASSUME Init PROVE Core
  OBVIOUS
<1>1. /\ \A e \in Event : row[e] = AbsentRow
      /\ \A d \in Drain : drain[d] = "new" /\ pass[d] = IdlePass
      /\ \A e \in Event : adoptions[e] = 0
  BY DEF Init
<1>2. Live = {}
  BY DEF Init, Live
<1>3. Typed
  <2>1. 0 \in 0 .. MaxFaults /\ 0 \in 0 .. MaxLapses /\ 0 \in 0 .. MaxResubmits
    BY BoundAssumption
  <2> QED BY <2>1, AbsentRowType, IdlePassType DEF Init, Typed
<1>4. RowsSound /\ HandlersSound /\ PassesSound /\ PassesApart
  BY <1>1, <1>2, AbsentRowType, IdlePassType DEF RowsSound, HandlersSound, PassesSound, PassesApart
<1>5. NewDrainsIdle /\ TokensMatch /\ LeasesKept /\ ClaimAttended /\ LaneSerialized /\ AdoptionIsDurable
  BY <1>1, <1>2, AbsentRowType, IdlePassType
     DEF NewDrainsIdle, TokensMatch, LeasesKept, ClaimAttended, LaneSerialized, AdoptionIsDurable
<1> QED BY <1>3, <1>4, <1>5 DEF Core

\* A stuttering step changes nothing.
LEMMA StutterKeepsCore ==
  ASSUME Core, UNCHANGED vars
  PROVE  Core'
<1>0. Typed
  BY DEF Core
<1>1. UNCHANGED <<row, drain, pass, handler, adoptions, faults, lapses, resubmits, stray>>
  BY DEF vars
<1>2. (\A e \in Event : RowKept(e)) /\ \A d \in Drain : PassKept(pass[d], pass'[d])
  BY <1>1, SameRow, SamePass
<1>3. Quiet
  BY <1>0, <1>1, <1>2 DEF Quiet, Typed
<1> QED BY <1>3, QuietKeepsCore

\* Every step of a queue, a drain, a handler or a timer keeps the invariant.
LEMMA NextKeepsCore ==
  ASSUME Core, [Next]_vars
  PROVE  Core'
<1>1. CASE \E e \in Event :
             Enqueue(e) \/ Resubmit(e) \/ BackoffElapses(e) \/ EventAges(e) \/ LeaseLapses(e)
  BY <1>1, EnqueueOK, ResubmitOK, BackoffOK, AgeOK, LapseOK
<1>2. CASE \E d \in Drain : StartDrain(d) \/ Abort(d) \/ Dispose(d)
  BY <1>2, StartDrainOK, AbortOK, DisposeOK
<1>3. CASE \E d \in Drain : DrainStep(d)
  BY <1>3, PassBeginsOK, PassBlocksOK, ScanEndsOK, ClaimNextOK, StartClaimedOK, PassEndsOK,
     ReturnClaimedOK, ReturnFailsOK, SupersedeOK DEF DrainStep
<1>4. CASE \E p \in Process : Crash(p)
  BY <1>4, CrashOK
<1>5. CASE \E t \in Token : WriteStep(t)
  BY <1>5, WriteCommitsOK, WriteFailsOK, RetryStoppedOK DEF WriteStep
<1>6. CASE \E t \in Token : Outcome(t)
  BY <1>6, OnAdoptedOK, OnFailedOK, DispatchCompletesOK, DispatchFailsOK DEF Outcome
<1>7. CASE \E t \in Token : \/ OnAbandoned(t) \/ OnDeferred(t) \/ OnAdoptionFinalizing(t)
                            \/ DispatchStops(t) \/ Stall(t) \/ Refresh(t)
  BY <1>7, OnAbandonedOK, OnDeferredOK, OnAdoptionFinalizingOK, DispatchStopsOK, StallOK, RefreshOK
<1>8. CASE UNCHANGED vars
  BY <1>8, StutterKeepsCore
<1> QED BY <1>1, <1>2, <1>3, <1>4, <1>5, <1>6, <1>7, <1>8 DEF Next

\* The inductive invariant of the drains: rows, passes and handlers agree on who has a claim.
THEOREM DrainCore == Spec => []Core
  BY CoreAtFirst, NextKeepsCore, PTL DEF Spec

\* Rows, passes and handlers have their shape, and every write that ends a claim, by a handler,
\* by recovery or by giving it back, clears the claim columns of its row
\* (ChannelIngressQueueRecord, ActiveHandlerState, release, complete, fail).
THEOREM DrainTypes == Spec => []TypeOK
<1>1. Core => TypeOK
  BY DEF Core, TypeOK
<1> QED BY <1>1, DrainCore, PTL

\* While leases are kept, what a drain works for is claimed by it and by it alone.
LEMMA LeasesMakeOneHolder == Core => OneHolder
<1> SUFFICES ASSUME Core, lapses = 0, NEW t \in Live, Holds(t)
             PROVE  Owns(t) /\ \A u \in Live \ {t} : Holds(u) => handler[u].event # handler[t].event
  BY DEF OneHolder
<1>1. \A u \in Live : Holds(u) =>
        row[handler[u].event].status = "claimed" /\ row[handler[u].event].token = u
  BY DEF Core, LeasesKept, Leased
<1>2. Owns(t)
  BY <1>1 DEF Owns
<1>3. ASSUME NEW u \in Live \ {t}, Holds(u), handler[u].event = handler[t].event
      PROVE  FALSE
  BY <1>1, <1>3
<1> QED BY <1>2, <1>3

\* A claim in the database and the handler that works for it never come apart while their drain
\* is up: no event is in the hands of two drains while leases are kept, and a claim without a
\* handler or a pass belongs to a drain that has stopped, or is one that a pass could not give
\* back (drainOnce, recoverStaleClaims, settleOnce, armClaimRefresh).
THEOREM NoClaimComesApart == Spec => []ClaimsHeld
<1>1. Core => ClaimsHeld
  BY LeasesMakeOneHolder DEF Core, ClaimsHeld
<1> QED BY <1>1, DrainCore, PTL

\* A drain has one handler at a time in a lane, also when leases are lost (blockedLaneKeys,
\* laneOwnerByKey, markLeaseReclaimed).
THEOREM LanesAreSerial == Spec => []LaneSerialized
<1>1. Core => LaneSerialized
  BY DEF Core
<1> QED BY <1>1, DrainCore, PTL

\* An adoption that was reported to the channel is in the database, and an event is adopted
\* once, whatever recovery, the watchdog and failing writes did meanwhile (onAdopted,
\* commitClaimWriteWithRetry, settleOnce).
THEOREM AdoptionsAreDurable == Spec => []AdoptionIsDurable
<1>1. Core => AdoptionIsDurable
  BY DEF Core
<1> QED BY <1>1, DrainCore, PTL
=============================================================================
