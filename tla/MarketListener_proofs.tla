------------------------ MODULE MarketListener_proofs -----------------------
(***************************************************************************)
(* A trader's position is the venue's once all is delivered, but for the   *)
(* three holes PositionKnown names: for any traders and positions and any  *)
(* number of changes, drops, subscriptions and failures.                   *)
(*                                                                         *)
(* PositionKnown speaks of quiet states only.  The invariant says why      *)
(* quiet comes with knowledge: whoever is subscribed has heard the newest  *)
(* version, or the worker or the product-info thread still owes it        *)
(* (Covered); and the worker's last message is the newest (WorkerFresh),   *)
(* although it may send an older one after a newer.                        *)
(***************************************************************************)
EXTENDS MarketListener, TLAPS

Opened == [kind : {"opened"}]
Positions == [kind : {"position"}, balance : Balance, version : Nat]
Infos == [kind : {"info"}, tick : BOOLEAN]

ListenerTypeOK ==
  /\ holding \in Balance /\ version \in Nat /\ up \in BOOLEAN
  /\ stream \in Seq(Opened \cup Positions)
  /\ events \in [Enqueuer -> Seq(Positions \cup Infos)]
  /\ \A i \in DOMAIN events["worker"] : events["worker"][i].kind = "position"
  /\ fetches \in Nat /\ loaded \in BOOLEAN /\ subscribed \in SUBSET Trader
  /\ position \in [Trader -> Balance]
  /\ heard \in [Trader -> [version : Int, newest : Int, by : Enqueuer]]
  /\ since \in [Trader -> Int]
  /\ rest_failed \in SUBSET Enqueuer

\* What a message says was so at its version.
Says(m) == m.kind = "position" => m.version <= version /\ (m.version = version => m.balance = holding)

MessagesTrue ==
  /\ \A i \in DOMAIN stream : Says(stream[i])
  /\ \A by \in Enqueuer : \A i \in DOMAIN events[by] : Says(events[by][i])

\* So is what a trader heard.
HeardTrue ==
  \A t \in Trader :
    /\ heard[t].version <= heard[t].newest /\ heard[t].newest <= version
    /\ heard[t].version = version => position[t] = holding

\* The adapter's worker has a fetch to make or to make good, or one that would say nothing.
WorkerOwes ==
  \/ ~up \/ holding = 0 \/ "worker" \in rest_failed
  \/ \E i \in DOMAIN stream : stream[i].kind = "opened"

\* Otherwise the last message on its way through the worker is the newest.
WorkerFresh ==
  /\ up /\ stream # <<>> =>
       LET m == stream[Len(stream)] IN m.kind = "opened" \/ m.version = version
  /\ WorkerOwes \/ stream # <<>> \/ events["worker"] = <<>>
       \/ events["worker"][Len(events["worker"])].version = version

\* The product-info thread has one to make or to make good, or has enqueued the newest.
InfoOwes ==
  \/ fetches > 0 \/ "info" \in rest_failed
  \/ \E i \in DOMAIN events["info"] :
       events["info"][i].kind = "position" /\ events["info"][i].version = version

\* Why a subscribed trader knows or will.
CoveredBy(t) ==
  \/ WorkerOwes \/ stream # <<>> \/ events["worker"] # <<>>
  \/ heard[t].version = version
  \/ heard[t].by = "info" /\ heard[t].newest = version
  \/ since[t] = version
  \/ since[t] = -1 /\ InfoOwes

Covered == \A t \in subscribed : CoveredBy(t)

ListenerInv == ListenerTypeOK /\ MessagesTrue /\ HeardTrue /\ WorkerFresh /\ Covered
-----------------------------------------------------------------------------
(* Messages and queues.                                                    *)

\* What the venue, and the fetches, say of the position is true.
LEMMA PositionMsgTrue ==
  ASSUME ListenerTypeOK
  PROVE  /\ PositionMsg(holding, version) \in Positions
         /\ PositionMsg(holding, version).kind = "position"
         /\ PositionMsg(holding, version).version = version
         /\ PositionMsg(holding, version).balance = holding
         /\ Says(PositionMsg(holding, version))
<1>1. holding \in Balance /\ version \in Nat
  BY DEF ListenerTypeOK
<1> QED
  BY <1>1 DEF PositionMsg, Positions, Says

\* The three kinds of messages.
LEMMA Kinds ==
  /\ \A m \in Opened \cup Positions : m.kind \in {"opened", "position"}
  /\ \A m \in Opened \cup Positions : m.kind # "opened" => m \in Positions
  /\ \A m \in Positions \cup Infos : m.kind \in {"position", "info"}
  /\ \A m \in Positions \cup Infos : m.kind = "position" => m \in Positions
  /\ \A m \in Positions : m.kind = "position" /\ m.balance \in Balance /\ m.version \in Nat
  BY DEF Opened, Positions, Infos

\* A sequence that grows at its end.
LEMMA Appended ==
  ASSUME NEW S, NEW s \in Seq(S), NEW m \in S, NEW r, r = Append(s, m)
  PROVE  /\ r \in Seq(S) /\ r # <<>> /\ Len(s) \in Nat /\ Len(r) = Len(s) + 1
         /\ DOMAIN s = 1..Len(s) /\ DOMAIN r = 1..(Len(s) + 1) /\ r[Len(s) + 1] = m
         /\ \A i \in DOMAIN s : i \in DOMAIN r /\ r[i] = s[i]
         /\ \A i \in DOMAIN r : i = Len(s) + 1 \/ (i \in DOMAIN s /\ r[i] = s[i])
<1>1. /\ r \in Seq(S) /\ Len(s) \in Nat /\ Len(r) = Len(s) + 1 /\ r[Len(s) + 1] = m
      /\ DOMAIN s = 1..Len(s) /\ DOMAIN r = 1..(Len(s) + 1)
      /\ \A i \in 1..Len(s) : r[i] = s[i]
  OBVIOUS
<1>2. r # <<>>
  BY <1>1
<1> QED
  BY <1>1, <1>2

\* A sequence whose first element is taken.
LEMMA Taken ==
  ASSUME NEW S, NEW s \in Seq(S), s # <<>>, NEW r, r = Tail(s)
  PROVE  /\ r \in Seq(S) /\ Len(s) \in Nat /\ Len(s) >= 1 /\ Len(r) = Len(s) - 1
         /\ DOMAIN s = 1..Len(s) /\ DOMAIN r = 1..(Len(s) - 1)
         /\ Head(s) = s[1] /\ 1 \in DOMAIN s /\ Head(s) \in S
         /\ \A i \in DOMAIN r : i + 1 \in DOMAIN s /\ r[i] = s[i + 1]
         /\ \A i \in DOMAIN s : i = 1 \/ (i - 1 \in DOMAIN r /\ r[i - 1] = s[i])
         /\ r # <<>> => r[Len(r)] = s[Len(s)] /\ Len(r) >= 1
         /\ r = <<>> => Head(s) = s[Len(s)]
<1>1. /\ r \in Seq(S) /\ Len(s) \in Nat /\ Len(s) >= 1 /\ Len(r) = Len(s) - 1
      /\ DOMAIN s = 1..Len(s) /\ DOMAIN r = 1..(Len(s) - 1)
      /\ Head(s) = s[1]
      /\ \A i \in 1..(Len(s) - 1) : r[i] = s[i + 1]
  OBVIOUS
<1>2. r # <<>> => Len(r) >= 1
  BY <1>1
<1>3. r = <<>> => Len(r) = 0
  OBVIOUS
<1>4. 1 \in DOMAIN s /\ Head(s) \in S
  BY <1>1
<1>5. \A i \in DOMAIN r : i + 1 \in DOMAIN s /\ r[i] = s[i + 1]
  BY <1>1
<1>6. \A i \in DOMAIN s : i = 1 \/ (i - 1 \in DOMAIN r /\ r[i - 1] = s[i])
  BY <1>1
<1>7. r # <<>> => r[Len(r)] = s[Len(s)]
  <2> SUFFICES ASSUME r # <<>>
               PROVE  r[Len(r)] = s[Len(s)]
    OBVIOUS
  <2>1. Len(s) - 1 \in 1..(Len(s) - 1) /\ (Len(s) - 1) + 1 = Len(s)
    BY <1>1, <1>2
  <2> QED
    BY <1>1, <2>1
<1>8. r = <<>> => Head(s) = s[Len(s)]
  BY <1>1, <1>3
<1> QED
  BY <1>1, <1>2, <1>4, <1>5, <1>6, <1>7, <1>8

\* A message goes to the end of one thread's queue.
LEMMA EnqueueEffect ==
  ASSUME ListenerTypeOK, NEW by \in Enqueuer, NEW m \in Positions \cup Infos, Enqueue(by, m),
         by = "worker" => m.kind = "position"
  PROVE  /\ events' \in [Enqueuer -> Seq(Positions \cup Infos)]
         /\ \A i \in DOMAIN events'["worker"] : events'["worker"][i].kind = "position"
         /\ events'[by] = Append(events[by], m)
         /\ \A a \in Enqueuer : a # by => events'[a] = events[a]
         /\ \A a \in Enqueuer : \A i \in DOMAIN events[a] :
              i \in DOMAIN events'[a] /\ events'[a][i] = events[a][i]
         /\ \A a \in Enqueuer : \A i \in DOMAIN events'[a] :
              events'[a][i] = m \/ \E k \in DOMAIN events[a] : events'[a][i] = events[a][k]
<1>1. events \in [Enqueuer -> Seq(Positions \cup Infos)]
      /\ \A i \in DOMAIN events["worker"] : events["worker"][i].kind = "position"
  BY DEF ListenerTypeOK
<1>2. events[by] \in Seq(Positions \cup Infos)
  BY <1>1
<1>3. events' = [events EXCEPT ![by] = Append(@, m)]
  BY DEF Enqueue
<1>4. Append(events[by], m) \in Seq(Positions \cup Infos)
  BY <1>2
<1>5. /\ events' \in [Enqueuer -> Seq(Positions \cup Infos)]
      /\ events'[by] = Append(events[by], m)
      /\ \A a \in Enqueuer : a # by => events'[a] = events[a]
  BY <1>1, <1>3, <1>4
<1>6. \A i \in DOMAIN events'["worker"] : events'["worker"][i].kind = "position"
  <2>1. CASE by = "worker"
    <3>1. \A i \in DOMAIN events'[by] :
            i = Len(events[by]) + 1 \/ (i \in DOMAIN events[by] /\ events'[by][i] = events[by][i])
      BY <1>2, <1>5, Appended
    <3>2. events'[by][Len(events[by]) + 1] = m
      BY <1>2, <1>5, Appended
    <3> QED
      BY <1>1, <2>1, <3>1, <3>2
  <2>2. CASE by # "worker"
    <3>1. events'["worker"] = events["worker"]
      BY <1>5, <2>2 DEF Enqueuer
    <3> QED
      BY <1>1, <3>1
  <2> QED
    BY <2>1, <2>2
<1>7. ASSUME NEW a \in Enqueuer
      PROVE  /\ \A i \in DOMAIN events[a] : i \in DOMAIN events'[a] /\ events'[a][i] = events[a][i]
             /\ \A i \in DOMAIN events'[a] :
                  events'[a][i] = m \/ \E k \in DOMAIN events[a] : events'[a][i] = events[a][k]
  <2>1. CASE a = by
    BY <1>2, <1>5, <2>1, Appended
  <2>2. CASE a # by
    BY <1>5, <2>2
  <2> QED
    BY <2>1, <2>2
<1> QED
  BY <1>5, <1>6, <1>7

\* While the position stands, messages that were true are, and new ones are if they say it.
LEMMA StillTrue ==
  ASSUME MessagesTrue, UNCHANGED <<holding, version>>,
         \A i \in DOMAIN stream' :
           stream'[i].kind = "opened" \/ \E k \in DOMAIN stream : stream'[i] = stream[k],
         \A a \in Enqueuer : \A i \in DOMAIN events'[a] :
           \/ events'[a][i].kind = "info"
           \/ \E m : Says(m) /\ events'[a][i] = m
           \/ \E k \in DOMAIN events[a] : events'[a][i] = events[a][k]
  PROVE  MessagesTrue'
<1>1. ASSUME NEW i \in DOMAIN stream'
      PROVE  Says(stream[i])'
  <2>1. PICK x : x = stream'[i]
    OBVIOUS
  <2>2. Says(x)
    BY <2>1 DEF MessagesTrue, Says
  <2> QED
    BY <2>1, <2>2 DEF Says
<1>2. ASSUME NEW a \in Enqueuer, NEW i \in DOMAIN events'[a]
      PROVE  Says(events[a][i])'
  <2>1. PICK x : x = events'[a][i]
    OBVIOUS
  <2>2. Says(x)
    <3>1. CASE x.kind = "info"
      BY <3>1 DEF Says
    <3>2. CASE \E k \in DOMAIN events[a] : x = events[a][k]
      BY <3>2 DEF MessagesTrue
    <3> QED
      BY <1>2, <2>1, <3>1, <3>2
  <2> QED
    BY <2>1, <2>2 DEF Says
<1> QED
  BY <1>1, <1>2 DEF MessagesTrue

\* A fetch fails, finds no position, or enqueues the newest.
LEMMA FetchEffect ==
  ASSUME ListenerTypeOK, NEW by \in Enqueuer, PublishUserState(by)
  PROVE  /\ events' \in [Enqueuer -> Seq(Positions \cup Infos)]
         /\ \A i \in DOMAIN events'["worker"] : events'["worker"][i].kind = "position"
         /\ rest_failed' \in SUBSET Enqueuer
         /\ \A a \in Enqueuer : a # by => events'[a] = events[a] /\ (a \in rest_failed' <=> a \in rest_failed)
         /\ \A a \in Enqueuer : \A i \in DOMAIN events[a] :
              i \in DOMAIN events'[a] /\ events'[a][i] = events[a][i]
         /\ \A a \in Enqueuer : \A i \in DOMAIN events'[a] :
              \/ \E m : Says(m) /\ events'[a][i] = m
              \/ \E k \in DOMAIN events[a] : events'[a][i] = events[a][k]
         /\ \/ by \in rest_failed' \/ holding = 0
            \/ /\ events'[by] # <<>> /\ Len(events'[by]) \in DOMAIN events'[by]
               /\ events'[by][Len(events'[by])].version = version
               /\ events'[by][Len(events'[by])].kind = "position"
<1>1. rest_failed \in SUBSET Enqueuer /\ events \in [Enqueuer -> Seq(Positions \cup Infos)]
      /\ \A i \in DOMAIN events["worker"] : events["worker"][i].kind = "position"
  BY DEF ListenerTypeOK
<1>2. CASE UNCHANGED events
  <2>1. rest_failed' = rest_failed \cup {by} \/ (rest_failed' = rest_failed \ {by} /\ holding = 0)
    <3>1. CASE holding = 0
      BY <3>1 DEF PublishUserState
    <3>2. CASE holding # 0 /\ Enqueue(by, PositionMsg(holding, version))
      <4>1. PICK m : m = PositionMsg(holding, version)
        OBVIOUS
      <4>2. m \in Positions \cup Infos /\ m.kind = "position"
        BY <4>1, PositionMsgTrue
      <4>3. events'[by] = Append(events[by], m)
        BY <3>2, <4>1, <4>2, EnqueueEffect
      <4>4. events[by] \in Seq(Positions \cup Infos)
        BY <1>1
      <4>5. Len(events'[by]) = Len(events[by]) + 1 /\ Len(events[by]) \in Nat
        BY <4>2, <4>3, <4>4, Appended
      <4> QED
        BY <1>2, <4>5
    <3> QED
      BY <3>1, <3>2 DEF PublishUserState
  <2> QED
    BY <1>1, <1>2, <2>1
<1>3. CASE Enqueue(by, PositionMsg(holding, version)) /\ rest_failed' = rest_failed \ {by}
  <2>1. PICK m : m = PositionMsg(holding, version)
    OBVIOUS
  <2>2. m \in Positions \cup Infos /\ m.kind = "position" /\ m.version = version /\ Says(m)
    BY <2>1, PositionMsgTrue
  <2>3. /\ events' \in [Enqueuer -> Seq(Positions \cup Infos)]
        /\ \A i \in DOMAIN events'["worker"] : events'["worker"][i].kind = "position"
        /\ events'[by] = Append(events[by], m)
        /\ \A a \in Enqueuer : a # by => events'[a] = events[a]
        /\ \A a \in Enqueuer : \A i \in DOMAIN events[a] :
             i \in DOMAIN events'[a] /\ events'[a][i] = events[a][i]
        /\ \A a \in Enqueuer : \A i \in DOMAIN events'[a] :
             events'[a][i] = m \/ \E k \in DOMAIN events[a] : events'[a][i] = events[a][k]
    BY <1>3, <2>1, <2>2, EnqueueEffect
  <2>4. events[by] \in Seq(Positions \cup Infos)
    BY <1>1
  <2>5. /\ events'[by] # <<>> /\ Len(events[by]) \in Nat /\ Len(events'[by]) = Len(events[by]) + 1
        /\ DOMAIN events'[by] = 1..(Len(events[by]) + 1) /\ events'[by][Len(events[by]) + 1] = m
    BY <2>2, <2>3, <2>4, Appended
  <2>6. Len(events'[by]) \in DOMAIN events'[by] /\ events'[by][Len(events'[by])] = m
    BY <2>5
  <2> QED
    BY <1>1, <1>3, <2>2, <2>3, <2>5, <2>6
<1> QED
  BY <1>2, <1>3 DEF PublishUserState, Fails
-----------------------------------------------------------------------------
(* The steps.                                                              *)

\* The socket is not up yet: the worker's first fetch is still to come.
LEMMA ListenerInit == Init => ListenerInv
<1> SUFFICES ASSUME Init
             PROVE  ListenerInv
  OBVIOUS
<1>1. <<>> \in Seq(Opened \cup Positions) /\ <<>> \in Seq(Positions \cup Infos)
  OBVIOUS
<1>2. \A by \in Enqueuer : events[by] = <<>>
  BY DEF Init
<1>3. \A i \in DOMAIN <<>> : FALSE
  OBVIOUS
<1>4. stream = <<>> /\ "worker" \in Enqueuer
  BY DEF Init, Enqueuer
<1>5. Unheard \in [version : Int, newest : Int, by : Enqueuer] /\ Unheard.version = -1 /\ Unheard.newest = -1
  BY DEF Unheard, Enqueuer
<1>6. up = FALSE /\ loaded = FALSE
  BY DEF Init
<1>7. /\ holding \in Balance /\ version = 0 /\ fetches = 0 /\ subscribed = {} /\ rest_failed = {}
      /\ position \in [Trader -> Balance] /\ since \in [Trader -> Int]
      /\ heard \in [Trader -> [version : Int, newest : Int, by : Enqueuer]]
      /\ \A t \in Trader : heard[t] = Unheard
  BY <1>5, ListenerAssumption DEF Init
<1>8. events \in [Enqueuer -> Seq(Positions \cup Infos)]
  BY <1>1 DEF Init
<1>9. ListenerTypeOK
  BY <1>1, <1>2, <1>3, <1>4, <1>6, <1>7, <1>8 DEF ListenerTypeOK
<1>10. MessagesTrue
  BY <1>2, <1>3, <1>4 DEF MessagesTrue
<1>11. HeardTrue
  <2>1. ASSUME NEW t \in Trader
        PROVE  heard[t].version = -1 /\ heard[t].newest = -1
    BY <1>5, <1>7
  <2>2. -1 <= -1 /\ -1 <= version /\ -1 # version
    BY <1>7
  <2> QED
    BY <2>1, <2>2 DEF HeardTrue
<1>12. WorkerFresh /\ Covered
  BY <1>6, <1>7 DEF WorkerFresh, WorkerOwes, Covered
<1> QED
  BY <1>9, <1>10, <1>11, <1>12 DEF ListenerInv

\* The position changes: over an open socket the news goes to the end of the stream,
\* and a closed one will open with a fetch.
LEMMA TradeKeeps ==
  ASSUME ListenerInv, VenueTrades
  PROVE  ListenerInv'
<1>0. ListenerTypeOK /\ MessagesTrue /\ HeardTrue
  BY DEF ListenerInv
<1>1. /\ holding' \in Balance /\ version' = version + 1 /\ version \in Nat
      /\ UNCHANGED <<up, events, fetches, loaded, subscribed, position, heard, since, rest_failed>>
  BY <1>0 DEF VenueTrades, infoVars, serverVars, viewVars, restVars, ListenerTypeOK
<1>2. PICK n : n = PositionMsg(holding', version')
  OBVIOUS
<1>3. n \in Positions /\ n.kind = "position" /\ n.version = version' /\ n.balance = holding'
  BY <1>1, <1>2 DEF PositionMsg, Positions
<1>4. stream \in Seq(Opened \cup Positions)
  BY <1>0 DEF ListenerTypeOK
<1>5. stream' = IF up THEN Append(stream, n) ELSE stream
  BY <1>2 DEF VenueTrades
<1>6. /\ stream' \in Seq(Opened \cup Positions)
      /\ \A i \in DOMAIN stream' : stream'[i] = n \/ (i \in DOMAIN stream /\ stream'[i] = stream[i])
      /\ up => stream' # <<>> /\ stream'[Len(stream')] = n
  <2>1. CASE up
    <3>1. stream' = Append(stream, n) /\ n \in Opened \cup Positions
      BY <1>3, <1>5, <2>1
    <3> QED
      BY <1>4, <3>1, Appended
  <2>2. CASE ~up
    BY <1>4, <1>5, <2>2
  <2> QED
    BY <2>1, <2>2
<1>7. ListenerTypeOK'
  <2>1. version' \in Nat
    BY <1>1
  <2>2. up' \in BOOLEAN /\ loaded' \in BOOLEAN
    BY <1>0, <1>1 DEF ListenerTypeOK
  <2> QED
    BY <1>0, <1>1, <1>6, <2>1, <2>2 DEF ListenerTypeOK
<1>8. ASSUME NEW m, Says(m), m.kind = "position" => m.version \in Nat
      PROVE  m.kind = "position" => m.version <= version' /\ m.version # version'
  BY <1>1, <1>8 DEF Says
<1>9. MessagesTrue'
  <2>1. ASSUME NEW i \in DOMAIN stream'
        PROVE  Says(stream[i])'
    <3>1. CASE stream'[i] = n
      BY <1>1, <1>3, <3>1 DEF Says
    <3>2. CASE i \in DOMAIN stream /\ stream'[i] = stream[i]
      <4>1. PICK m : m = stream[i]
        OBVIOUS
      <4>2. Says(m) /\ m \in Opened \cup Positions
        BY <1>0, <1>4, <3>2, <4>1 DEF MessagesTrue
      <4>3. m.kind = "position" => m.version \in Nat
        BY <4>2, Kinds
      <4>4. m.kind = "position" => m.version <= version' /\ m.version # version'
        BY <1>8, <4>2, <4>3
      <4> QED
        BY <3>2, <4>1, <4>4 DEF Says
    <3> QED
      BY <1>6, <2>1, <3>1, <3>2
  <2>2. ASSUME NEW by \in Enqueuer, NEW i \in DOMAIN events'[by]
        PROVE  Says(events[by][i])'
    <3>1. PICK m : m = events[by][i]
      OBVIOUS
    <3>2. events[by] \in Seq(Positions \cup Infos) /\ i \in DOMAIN events[by] /\ events'[by][i] = m
      BY <1>0, <1>1, <2>2, <3>1 DEF ListenerTypeOK
    <3>3. Says(m) /\ m \in Positions \cup Infos
      BY <1>0, <3>1, <3>2 DEF MessagesTrue
    <3>4. m.kind = "position" => m.version \in Nat
      BY <3>3, Kinds
    <3>5. m.kind = "position" => m.version <= version' /\ m.version # version'
      BY <1>8, <3>3, <3>4
    <3> QED
      BY <3>2, <3>5 DEF Says
  <2> QED
    BY <2>1, <2>2 DEF MessagesTrue
<1>10. HeardTrue'
  <2> SUFFICES ASSUME NEW t \in Trader
               PROVE  /\ heard[t].version <= heard[t].newest /\ heard[t].newest <= version'
                      /\ heard[t].version # version'
    BY <1>1 DEF HeardTrue
  <2>1. heard[t].version \in Int /\ heard[t].newest \in Int
    BY <1>0 DEF ListenerTypeOK
  <2> QED
    BY <1>0, <1>1, <2>1 DEF HeardTrue
<1>11. WorkerFresh' /\ Covered'
  <2>1. CASE up
    BY <1>1, <1>3, <1>6, <2>1 DEF WorkerFresh, Covered, CoveredBy
  <2>2. CASE ~up
    BY <1>1, <2>2 DEF WorkerFresh, Covered, CoveredBy, WorkerOwes
  <2> QED
    BY <2>1, <2>2
<1> QED
  BY <1>7, <1>9, <1>10, <1>11 DEF ListenerInv

\* What a trader heard stays true while the position stands.
LEMMA HeardStands ==
  ASSUME HeardTrue, UNCHANGED <<holding, version, heard, position>>
  PROVE  HeardTrue'
  BY DEF HeardTrue

\* The socket opens, with a fetch to come, or drops.
LEMMA SocketKeeps ==
  ASSUME ListenerInv, SocketOpens \/ SocketDrops
  PROVE  ListenerInv'
<1>0. ListenerTypeOK /\ MessagesTrue /\ HeardTrue
  BY DEF ListenerInv
<1>1. UNCHANGED <<holding, version, events, fetches, loaded, subscribed, position, heard, since, rest_failed>>
  BY DEF SocketOpens, SocketDrops, venueVars, infoVars, serverVars, viewVars, restVars
<1>2. stream \in Seq(Opened \cup Positions)
  BY <1>0 DEF ListenerTypeOK
<1>3. up' \in BOOLEAN
  BY DEF SocketOpens, SocketDrops
<1>4. /\ stream' \in Seq(Opened \cup Positions)
      /\ \A i \in DOMAIN stream' :
           stream'[i].kind = "opened" \/ \E k \in DOMAIN stream : stream'[i] = stream[k]
      /\ up' => stream' # <<>> /\ stream'[Len(stream')].kind = "opened"
  <2>1. CASE SocketOpens
    <3>1. PICK m : m = [kind |-> "opened"]
      OBVIOUS
    <3>2. m \in Opened \cup Positions /\ m.kind = "opened" /\ stream' = Append(stream, m)
      BY <2>1, <3>1 DEF SocketOpens, Opened
    <3> QED
      BY <1>2, <3>2, Appended
  <2>2. CASE SocketDrops
    BY <1>2, <2>2 DEF SocketDrops
  <2> QED
    BY <2>1, <2>2
<1>5. ListenerTypeOK'
  BY <1>0, <1>1, <1>3, <1>4 DEF ListenerTypeOK
<1>6. MessagesTrue'
  <2>1. \A a \in Enqueuer : \A i \in DOMAIN events'[a] : \E k \in DOMAIN events[a] : events'[a][i] = events[a][k]
    BY <1>1
  <2> QED
    BY <1>0, <1>1, <1>4, <2>1, StillTrue
<1>7. WorkerFresh' /\ Covered'
  <2>1. CASE up'
    BY <1>4, <2>1 DEF WorkerFresh, Covered, CoveredBy
  <2>2. CASE ~up'
    BY <2>2 DEF WorkerFresh, Covered, CoveredBy, WorkerOwes
  <2> QED
    BY <1>3, <2>1, <2>2
<1> QED
  BY <1>0, <1>1, <1>5, <1>6, <1>7, HeardStands DEF ListenerInv

\* The adapter's worker fetches the position or passes an update on.
LEMMA WorkerKeeps ==
  ASSUME ListenerInv, WorkerTakes
  PROVE  ListenerInv'
<1>0. ListenerTypeOK /\ MessagesTrue /\ HeardTrue /\ WorkerFresh
  BY DEF ListenerInv
<1>1. UNCHANGED <<holding, version, up, fetches, loaded, subscribed, position, heard, since>>
  BY DEF WorkerTakes, venueVars, infoVars, serverVars, viewVars
<1>2. stream \in Seq(Opened \cup Positions) /\ stream # <<>> /\ stream' = Tail(stream)
      /\ events \in [Enqueuer -> Seq(Positions \cup Infos)] /\ "worker" \in Enqueuer
      /\ up \in BOOLEAN /\ events["worker"] \in Seq(Positions \cup Infos)
  BY <1>0 DEF ListenerTypeOK, WorkerTakes, Enqueuer
<1>3. PICK h : h = Head(stream)
  OBVIOUS
<1>4. /\ stream' \in Seq(Opened \cup Positions) /\ h \in Opened \cup Positions
      /\ h = stream[1] /\ 1 \in DOMAIN stream
      /\ \A i \in DOMAIN stream' : \E k \in DOMAIN stream : stream'[i] = stream[k]
      /\ stream' # <<>> => stream'[Len(stream')] = stream[Len(stream)]
      /\ stream' = <<>> => h = stream[Len(stream)]
  <2>1. PICK r, s, S : r = Tail(stream) /\ s = stream /\ S = Opened \cup Positions
    OBVIOUS
  <2>2. s \in Seq(S) /\ s # <<>> /\ r = Tail(s)
    BY <1>2, <2>1
  <2>3. /\ r \in Seq(S) /\ Head(s) = s[1] /\ 1 \in DOMAIN s /\ Head(s) \in S
        /\ \A i \in DOMAIN r : i + 1 \in DOMAIN s /\ r[i] = s[i + 1]
        /\ r # <<>> => r[Len(r)] = s[Len(s)]
        /\ r = <<>> => Head(s) = s[Len(s)]
    BY <2>2, Taken
  <2>4. \A i \in DOMAIN r : \E k \in DOMAIN s : r[i] = s[k]
    BY <2>3
  <2>5. stream' = r /\ h = Head(s)
    BY <1>2, <1>3, <2>1
  <2> QED
    BY <2>1, <2>3, <2>4, <2>5, Zenon
<1>5. Says(h)
  BY <1>0, <1>4 DEF MessagesTrue
<1>6. CASE h.kind = "opened"
  <2>1. PublishUserState("worker")
    BY <1>3, <1>6 DEF WorkerTakes
  <2>2. /\ events' \in [Enqueuer -> Seq(Positions \cup Infos)]
        /\ \A i \in DOMAIN events'["worker"] : events'["worker"][i].kind = "position"
        /\ rest_failed' \in SUBSET Enqueuer
        /\ \A a \in Enqueuer : \A i \in DOMAIN events'[a] :
             \/ \E m : Says(m) /\ events'[a][i] = m
             \/ \E k \in DOMAIN events[a] : events'[a][i] = events[a][k]
        /\ \/ "worker" \in rest_failed' \/ holding = 0
           \/ /\ events'["worker"] # <<>>
              /\ events'["worker"][Len(events'["worker"])].version = version
    BY <1>0, <1>2, <2>1, FetchEffect
  <2>3. ListenerTypeOK'
    BY <1>0, <1>1, <1>4, <2>2 DEF ListenerTypeOK
  <2>4. MessagesTrue'
    BY <1>0, <1>1, <1>4, <2>2, StillTrue
  <2>5. WorkerFresh' /\ Covered'
    <3>1. \/ WorkerOwes'
          \/ /\ events'["worker"] # <<>>
             /\ events'["worker"][Len(events'["worker"])].version = version'
      BY <1>1, <2>2 DEF WorkerOwes
    <3>2. WorkerFresh'
      BY <1>0, <1>1, <1>4, <3>1 DEF WorkerFresh
    <3>3. Covered'
      BY <3>1 DEF Covered, CoveredBy
    <3> QED
      BY <3>2, <3>3
  <2> QED
    BY <1>0, <1>1, <2>3, <2>4, <2>5, HeardStands DEF ListenerInv
<1>7. CASE h.kind # "opened"
  <2>1. Enqueue("worker", h) /\ UNCHANGED rest_failed
    BY <1>3, <1>7 DEF WorkerTakes, restVars
  <2>2. h \in Positions /\ h.kind = "position"
    BY <1>4, <1>7, Kinds
  <2>3. /\ events' \in [Enqueuer -> Seq(Positions \cup Infos)]
        /\ \A i \in DOMAIN events'["worker"] : events'["worker"][i].kind = "position"
        /\ events'["worker"] = Append(events["worker"], h)
        /\ \A a \in Enqueuer : \A i \in DOMAIN events'[a] :
             events'[a][i] = h \/ \E k \in DOMAIN events[a] : events'[a][i] = events[a][k]
    BY <1>0, <1>2, <2>1, <2>2, EnqueueEffect
  <2>4. events'["worker"] # <<>> /\ events'["worker"][Len(events'["worker"])] = h
    BY <1>2, <2>2, <2>3, Appended
  <2>5. ListenerTypeOK'
    BY <1>0, <1>1, <1>4, <2>1, <2>3 DEF ListenerTypeOK
  <2>6. MessagesTrue'
    BY <1>0, <1>1, <1>4, <1>5, <2>3, StillTrue
  <2>7. WorkerFresh'
    <3>1. up' /\ stream' # <<>> =>
            stream'[Len(stream')].kind = "opened" \/ stream'[Len(stream')].version = version'
      BY <1>0, <1>1, <1>2, <1>4 DEF WorkerFresh
    <3>2. stream' = <<>> /\ up => h.version = version
      BY <1>0, <1>2, <1>4, <1>7 DEF WorkerFresh
    <3>3. ~up => WorkerOwes'
      BY <1>1 DEF WorkerOwes
    <3> QED
      BY <1>1, <2>4, <3>1, <3>2, <3>3 DEF WorkerFresh
  <2>8. Covered'
    BY <2>4 DEF Covered, CoveredBy
  <2> QED
    BY <1>0, <1>1, <2>5, <2>6, <2>7, <2>8, HeardStands DEF ListenerInv
<1> QED
  BY <1>6, <1>7

\* What the product-info thread enqueues does not touch the worker's side.
LEMMA InfoSideKeeps ==
  ASSUME ListenerInv,
         UNCHANGED <<holding, version, up, stream, subscribed, position, heard, since>>,
         events' \in [Enqueuer -> Seq(Positions \cup Infos)],
         events'["worker"] = events["worker"],
         "worker" \in rest_failed' <=> "worker" \in rest_failed,
         rest_failed' \in SUBSET Enqueuer, fetches' \in Nat, loaded' \in BOOLEAN,
         \A a \in Enqueuer : \A i \in DOMAIN events'[a] :
           \/ events'[a][i].kind = "info"
           \/ \E m : Says(m) /\ events'[a][i] = m
           \/ \E k \in DOMAIN events[a] : events'[a][i] = events[a][k],
         InfoOwes => InfoOwes' \/ holding = 0
  PROVE  ListenerInv'
<1>0. ListenerTypeOK /\ MessagesTrue /\ HeardTrue /\ WorkerFresh /\ Covered
  BY DEF ListenerInv
<1>1. up' \in BOOLEAN
  BY <1>0 DEF ListenerTypeOK
<1>2. ListenerTypeOK'
  BY <1>0, <1>1 DEF ListenerTypeOK
<1>3. MessagesTrue'
  BY <1>0, StillTrue
<1>4. WorkerOwes' <=> WorkerOwes
  BY DEF WorkerOwes
<1>5. WorkerFresh'
  BY <1>0, <1>4 DEF WorkerFresh
<1>6. Covered'
  <2> SUFFICES ASSUME NEW t \in subscribed
               PROVE  CoveredBy(t)'
    BY DEF Covered
  <2>1. CoveredBy(t)
    BY <1>0 DEF Covered
  <2>2. holding = 0 => WorkerOwes'
    BY DEF WorkerOwes
  <2> QED
    BY <1>4, <2>1, <2>2 DEF CoveredBy
<1> QED
  BY <1>0, <1>2, <1>3, <1>5, <1>6, HeardStands DEF ListenerInv

\* Product info is published, at startup or by the timer.
LEMMA PublishKeeps ==
  ASSUME ListenerInv, InfoStartup \/ InfoRefresh
  PROVE  ListenerInv'
<1>0. ListenerTypeOK
  BY DEF ListenerInv
<1>1. UNCHANGED <<holding, version, up, stream, subscribed, position, heard, since, fetches, rest_failed>>
  BY DEF InfoStartup, InfoRefresh, PublishProductInfo, venueVars, socketVars, serverVars, viewVars
<1>2. loaded' \in BOOLEAN
  BY <1>0 DEF InfoStartup, InfoRefresh, PublishProductInfo, ListenerTypeOK
<1>3. PICK m : m = [kind |-> "info", tick |-> loaded']
  OBVIOUS
<1>4. Enqueue("info", m) /\ m \in Infos /\ m.kind = "info" /\ "info" \in Enqueuer /\ "worker" \in Enqueuer
  BY <1>2, <1>3 DEF InfoStartup, InfoRefresh, PublishProductInfo, Infos, Enqueuer
<1>5. /\ events' \in [Enqueuer -> Seq(Positions \cup Infos)]
      /\ \A a \in Enqueuer : a # "info" => events'[a] = events[a]
      /\ \A a \in Enqueuer : \A i \in DOMAIN events[a] :
           i \in DOMAIN events'[a] /\ events'[a][i] = events[a][i]
      /\ \A a \in Enqueuer : \A i \in DOMAIN events'[a] :
           events'[a][i] = m \/ \E k \in DOMAIN events[a] : events'[a][i] = events[a][k]
  BY <1>0, <1>4, EnqueueEffect
<1>6. events'["worker"] = events["worker"]
  BY <1>4, <1>5
<1>7. InfoOwes => InfoOwes'
  BY <1>1, <1>4, <1>5 DEF InfoOwes
<1>8. \A a \in Enqueuer : \A i \in DOMAIN events'[a] :
        events'[a][i].kind = "info" \/ \E k \in DOMAIN events[a] : events'[a][i] = events[a][k]
  BY <1>4, <1>5
<1>9. rest_failed' \in SUBSET Enqueuer /\ fetches' \in Nat
  BY <1>0, <1>1 DEF ListenerTypeOK
<1> QED
  BY <1>1, <1>2, <1>5, <1>6, <1>7, <1>8, <1>9, InfoSideKeeps

\* A fetch for a subscriber: it is made good, or says nothing of a closed position.
LEMMA FetchKeeps ==
  ASSUME ListenerInv, InfoFetches
  PROVE  ListenerInv'
<1>0. ListenerTypeOK
  BY DEF ListenerInv
<1>1. UNCHANGED <<holding, version, up, stream, subscribed, position, heard, since, loaded>>
      /\ PublishUserState("info")
  BY DEF InfoFetches, venueVars, socketVars, serverVars, viewVars
<1>2. fetches' \in Nat
  BY <1>0 DEF InfoFetches, ListenerTypeOK
<1>3. "info" \in Enqueuer /\ "worker" \in Enqueuer
  BY DEF Enqueuer
<1>4. /\ events' \in [Enqueuer -> Seq(Positions \cup Infos)]
      /\ rest_failed' \in SUBSET Enqueuer
      /\ \A a \in Enqueuer : a # "info" => events'[a] = events[a] /\ (a \in rest_failed' <=> a \in rest_failed)
      /\ \A a \in Enqueuer : \A i \in DOMAIN events'[a] :
           \/ \E m : Says(m) /\ events'[a][i] = m
           \/ \E k \in DOMAIN events[a] : events'[a][i] = events[a][k]
      /\ \/ "info" \in rest_failed' \/ holding = 0
         \/ /\ Len(events'["info"]) \in DOMAIN events'["info"]
            /\ events'["info"][Len(events'["info"])].version = version
            /\ events'["info"][Len(events'["info"])].kind = "position"
  BY <1>0, <1>1, <1>3, FetchEffect
<1>5. events'["worker"] = events["worker"] /\ ("worker" \in rest_failed' <=> "worker" \in rest_failed)
  BY <1>3, <1>4
<1>6. InfoOwes' \/ holding = 0
  BY <1>1, <1>4 DEF InfoOwes
<1>7. loaded' \in BOOLEAN
  BY <1>0, <1>1 DEF ListenerTypeOK
<1> QED
  BY <1>1, <1>2, <1>4, <1>5, <1>6, <1>7, InfoSideKeeps

\* A trader, or another, subscribes; a link is lost; the window passes.
LEMMA SubscribersKeep ==
  ASSUME ListenerInv,
         \/ \E t \in Trader : Subscribe(t) \/ LinkLost(t)
         \/ OtherSubscribes \/ WindowPasses
  PROVE  ListenerInv'
<1>0. ListenerTypeOK /\ MessagesTrue /\ HeardTrue /\ WorkerFresh /\ Covered
  BY DEF ListenerInv
<1>1. UNCHANGED <<holding, version, up, stream, events, position, heard, loaded, rest_failed>>
  BY DEF Subscribe, LinkLost, OtherSubscribes, WindowPasses,
         venueVars, socketVars, infoVars, viewVars, restVars
<1>2. fetches' \in Nat /\ fetches' >= fetches /\ fetches \in Nat
  <2>1. fetches \in Nat
    BY <1>0 DEF ListenerTypeOK
  <2>2. fetches' = fetches \/ fetches' = fetches + 1
    BY DEF Subscribe, LinkLost, OtherSubscribes, WindowPasses, SubscribeHook, infoVars
  <2> QED
    BY <2>1, <2>2
<1>3. subscribed' \in SUBSET Trader /\ since' \in [Trader -> Int]
  <2>1. subscribed \in SUBSET Trader /\ since \in [Trader -> Int] /\ version \in Int
    BY <1>0 DEF ListenerTypeOK
  <2>2. ASSUME NEW t \in Trader, Subscribe(t)
        PROVE  subscribed' \in SUBSET Trader /\ since' \in [Trader -> Int]
    <3>0. PICK v : v = IF recent THEN version ELSE -1
      OBVIOUS
    <3>1. v \in Int /\ since' = [since EXCEPT ![t] = v]
      BY <2>1, <2>2, <3>0 DEF Subscribe
    <3> QED
      BY <2>1, <2>2, <3>1 DEF Subscribe
  <2>3. ASSUME NEW t \in Trader, LinkLost(t)
        PROVE  subscribed' \in SUBSET Trader /\ since' \in [Trader -> Int]
    BY <2>1, <2>3 DEF LinkLost, viewVars
  <2>4. ASSUME OtherSubscribes \/ WindowPasses
        PROVE  subscribed' \in SUBSET Trader /\ since' \in [Trader -> Int]
    BY <2>1, <2>4 DEF OtherSubscribes, WindowPasses, viewVars
  <2> QED
    BY <2>2, <2>3, <2>4
<1>4. up' \in BOOLEAN /\ loaded' \in BOOLEAN
  BY <1>0, <1>1 DEF ListenerTypeOK
<1>5. ListenerTypeOK'
  BY <1>0, <1>1, <1>2, <1>3, <1>4 DEF ListenerTypeOK
<1>6. MessagesTrue'
  BY <1>0, <1>1 DEF MessagesTrue, Says
<1>7. WorkerOwes' <=> WorkerOwes
  BY <1>1 DEF WorkerOwes
<1>8. WorkerFresh'
  BY <1>0, <1>1, <1>7 DEF WorkerFresh
<1>9. InfoOwes => InfoOwes'
  BY <1>1, <1>2 DEF InfoOwes
<1>10. Covered'
  <2> SUFFICES ASSUME NEW t \in subscribed'
               PROVE  CoveredBy(t)'
    BY DEF Covered
  <2>1. CASE t \in subscribed /\ since'[t] = since[t]
    <3>1. CoveredBy(t)
      BY <1>0, <2>1 DEF Covered
    <3> QED
      BY <1>1, <1>7, <1>9, <2>1, <3>1 DEF CoveredBy
  <2>2. CASE Subscribe(t)
    <3>1. since' = [since EXCEPT ![t] = IF recent THEN version ELSE -1] /\ t \in Trader
      BY <1>3, <2>2 DEF Subscribe
    <3>2. CASE recent
      <4>1. since'[t] = version
        BY <1>0, <3>1, <3>2 DEF ListenerTypeOK
      <4> QED
        BY <1>1, <4>1 DEF CoveredBy
    <3>3. CASE ~recent
      <4>1. since'[t] = -1
        BY <1>0, <3>1, <3>3 DEF ListenerTypeOK
      <4>2. fetches' = fetches + 1
        BY <2>2, <3>3 DEF Subscribe, SubscribeHook
      <4>3. InfoOwes'
        BY <1>2, <4>2 DEF InfoOwes
      <4> QED
        BY <4>1, <4>3 DEF CoveredBy
    <3> QED
      BY <3>2, <3>3
  <2>3. ASSUME NEW u \in Trader, Subscribe(u), u # t
        PROVE  t \in subscribed /\ since'[t] = since[t]
    BY <1>0, <1>3, <2>3 DEF Subscribe, ListenerTypeOK
  <2>4. ASSUME (\E u \in Trader : LinkLost(u)) \/ OtherSubscribes \/ WindowPasses
        PROVE  t \in subscribed /\ since'[t] = since[t]
    BY <2>4 DEF LinkLost, OtherSubscribes, WindowPasses, viewVars
  <2> QED
    BY <2>1, <2>2, <2>3, <2>4
<1> QED
  BY <1>0, <1>1, <1>5, <1>6, <1>8, <1>10, HeardStands DEF ListenerInv

\* listen() broadcasts: a trader hears the newest, or an older one from a thread that
\* has more to come or after it had heard the newest.
LEMMA ListenKeeps ==
  ASSUME ListenerInv, NEW by \in Enqueuer, Listen(by)
  PROVE  ListenerInv'
<1>0. ListenerTypeOK /\ MessagesTrue /\ HeardTrue /\ WorkerFresh /\ Covered
  BY DEF ListenerInv
<1>1. UNCHANGED <<holding, version, up, stream, fetches, loaded, subscribed, since, rest_failed>>
  BY DEF Listen, venueVars, socketVars, infoVars, restVars
<1>2. events[by] # <<>> /\ events' = [events EXCEPT ![by] = Tail(@)]
      /\ events \in [Enqueuer -> Seq(Positions \cup Infos)]
  BY <1>0 DEF Listen, ListenerTypeOK
<1>3. PICK r, s, S : r = Tail(events[by]) /\ s = events[by] /\ S = Positions \cup Infos
  OBVIOUS
<1>4. s \in Seq(S) /\ s # <<>> /\ r = Tail(s)
  BY <1>2, <1>3
<1>5. PICK m : m = Head(s)
  OBVIOUS
<1>6. /\ r \in Seq(S) /\ m = s[1] /\ 1 \in DOMAIN s /\ m \in S
      /\ \A i \in DOMAIN r : i + 1 \in DOMAIN s /\ r[i] = s[i + 1]
      /\ \A i \in DOMAIN s : i = 1 \/ (i - 1 \in DOMAIN r /\ r[i - 1] = s[i])
      /\ r # <<>> => r[Len(r)] = s[Len(s)]
      /\ r = <<>> => m = s[Len(s)]
  BY <1>4, <1>5, Taken
<1>7. /\ events' \in [Enqueuer -> Seq(Positions \cup Infos)]
      /\ events'[by] = r /\ \A a \in Enqueuer : a # by => events'[a] = events[a]
  <2>1. Tail(events[by]) \in Seq(Positions \cup Infos)
    BY <1>3, <1>6
  <2> QED
    BY <1>2, <1>3, <2>1
<1>8. \A a \in Enqueuer : \A i \in DOMAIN events'[a] : \E k \in DOMAIN events[a] : events'[a][i] = events[a][k]
  <2> SUFFICES ASSUME NEW a \in Enqueuer, NEW i \in DOMAIN events'[a]
               PROVE  \E k \in DOMAIN events[a] : events'[a][i] = events[a][k]
    OBVIOUS
  <2>1. CASE a = by
    <3>1. events'[a] = r /\ events[a] = s
      BY <1>3, <1>7, <2>1
    <3>2. i + 1 \in DOMAIN s /\ r[i] = s[i + 1]
      BY <1>6, <3>1
    <3> QED
      BY <3>1, <3>2
  <2>2. CASE a # by
    BY <1>7, <2>2
  <2> QED
    BY <2>1, <2>2
<1>9. Says(m) /\ m \in Positions \cup Infos /\ "worker" \in Enqueuer /\ "info" \in Enqueuer
  <2>1. Says(s[1])
    BY <1>0, <1>3, <1>6 DEF MessagesTrue
  <2> QED
    BY <1>3, <1>6, <2>1 DEF Enqueuer
<1>10. by = "worker" => m.kind = "position"
  BY <1>0, <1>3, <1>6 DEF ListenerTypeOK
<1>11. CASE m.kind = "position"
  <2>1. TellPosition(m, by)
    BY <1>3, <1>5, <1>11 DEF Listen
  <2>2. m.version \in Nat /\ m.balance \in Balance /\ m.version <= version /\ version \in Nat
        /\ (m.version = version => m.balance = holding)
    BY <1>0, <1>9, <1>11, Kinds DEF Says, ListenerTypeOK
  <2>3. PICK hear \in [Trader -> [version : Int, newest : Int, by : Enqueuer]] :
          hear = [t \in Trader |->
            IF t \in subscribed
            THEN [version |-> m.version, by |-> by,
                  newest |-> IF m.version > heard[t].newest THEN m.version ELSE heard[t].newest]
            ELSE heard[t]]
    <3>1. ASSUME NEW t \in Trader
          PROVE  (IF t \in subscribed
                  THEN [version |-> m.version, by |-> by,
                        newest |-> IF m.version > heard[t].newest THEN m.version ELSE heard[t].newest]
                  ELSE heard[t]) \in [version : Int, newest : Int, by : Enqueuer]
      <4>1. heard[t] \in [version : Int, newest : Int, by : Enqueuer]
        BY <1>0 DEF ListenerTypeOK
      <4>2. heard[t].newest \in Int
        BY <4>1
      <4>3. (IF m.version > heard[t].newest THEN m.version ELSE heard[t].newest) \in Int
        BY <2>2, <4>2
      <4>4. [version |-> m.version, by |-> by,
             newest |-> IF m.version > heard[t].newest THEN m.version ELSE heard[t].newest]
              \in [version : Int, newest : Int, by : Enqueuer]
        BY <2>2, <4>3
      <4> QED
        BY <4>1, <4>4
    <3> QED
      BY <3>1
  <2>4. heard' = hear
    BY <2>1, <2>3 DEF TellPosition
  <2>5. \A t \in Trader : t \notin subscribed => heard'[t] = heard[t] /\ position'[t] = position[t]
    BY <2>1, <2>3, <2>4 DEF TellPosition
  <2>6. ASSUME NEW t \in Trader, t \in subscribed
        PROVE  /\ heard'[t].version = m.version /\ heard'[t].by = by
               /\ heard'[t].newest = IF m.version > heard[t].newest THEN m.version ELSE heard[t].newest
               /\ position'[t] = m.balance
    BY <2>1, <2>3, <2>4, <2>6 DEF TellPosition
  <2>7. position' \in [Trader -> Balance]
    BY <1>0, <2>1, <2>2 DEF TellPosition, ListenerTypeOK
  <2>8. ListenerTypeOK'
    <3>1. up' \in BOOLEAN /\ loaded' \in BOOLEAN
      BY <1>0, <1>1 DEF ListenerTypeOK
    <3>2. \A i \in DOMAIN events'["worker"] : events'["worker"][i].kind = "position"
      BY <1>0, <1>8, <1>9 DEF ListenerTypeOK
    <3> QED
      BY <1>0, <1>1, <1>7, <2>3, <2>4, <2>7, <3>1, <3>2 DEF ListenerTypeOK
  <2>9. HeardTrue'
    <3> SUFFICES ASSUME NEW t \in Trader
                 PROVE  /\ heard'[t].version <= heard'[t].newest /\ heard'[t].newest <= version'
                        /\ heard'[t].version = version' => position'[t] = holding'
      BY DEF HeardTrue
    <3>1. heard[t].newest \in Int /\ heard[t].newest <= version
      BY <1>0 DEF HeardTrue, ListenerTypeOK
    <3>2. CASE t \in subscribed
      BY <1>1, <2>2, <2>6, <3>1, <3>2
    <3>3. CASE t \notin subscribed
      BY <1>0, <1>1, <2>5, <3>3 DEF HeardTrue
    <3> QED
      BY <3>2, <3>3
  <2>10. WorkerOwes' <=> WorkerOwes
    BY <1>1 DEF WorkerOwes
  <2>11. WorkerFresh'
    <3>1. CASE by = "worker"
      <4>1. events'["worker"] # <<>> =>
              events'["worker"][Len(events'["worker"])] = events["worker"][Len(events["worker"])]
        BY <1>3, <1>6, <1>7, <3>1
      <4>2. events["worker"] # <<>>
        BY <1>2, <3>1
      <4> QED
        BY <1>0, <1>1, <2>10, <4>1, <4>2 DEF WorkerFresh
    <3>2. CASE by # "worker"
      <4>1. events'["worker"] = events["worker"]
        BY <1>7, <1>9, <3>2
      <4> QED
        BY <1>0, <1>1, <2>10, <4>1 DEF WorkerFresh
    <3> QED
      BY <3>1, <3>2
  <2>12. Covered'
    <3> SUFFICES ASSUME NEW t \in subscribed
                 PROVE  CoveredBy(t)'
      BY <1>1 DEF Covered
    <3>0. t \in Trader /\ CoveredBy(t)
      BY <1>0 DEF ListenerTypeOK, Covered
    <3>1. CASE by = "worker"
      <4>1. CASE events'["worker"] # <<>> \/ stream # <<>> \/ WorkerOwes
        BY <1>1, <2>10, <4>1 DEF CoveredBy
      <4>2. CASE events'["worker"] = <<>> /\ stream = <<>> /\ ~WorkerOwes
        <5>1. m = events["worker"][Len(events["worker"])] /\ events["worker"] # <<>>
          BY <1>2, <1>3, <1>6, <1>7, <3>1, <4>2
        <5>2. m.version = version
          BY <1>0, <4>2, <5>1 DEF WorkerFresh
        <5>3. heard'[t].version = version'
          BY <1>1, <2>6, <3>0, <5>2
        <5> QED
          BY <5>3 DEF CoveredBy
      <4> QED
        BY <4>1, <4>2
    <3>2. CASE by = "info"
      <4>0. events'["worker"] = events["worker"]
        BY <1>7, <1>9, <3>2
      <4>1. CASE WorkerOwes \/ stream # <<>> \/ events["worker"] # <<>>
        BY <1>1, <2>10, <4>0, <4>1 DEF CoveredBy
      <4>2. CASE heard[t].version = version \/ (heard[t].by = "info" /\ heard[t].newest = version)
        <5>1. heard[t].newest = version
          <6>1. heard[t].newest \in Int /\ heard[t].version <= heard[t].newest /\ heard[t].newest <= version
            BY <1>0, <3>0 DEF HeardTrue, ListenerTypeOK
          <6> QED
            BY <2>2, <4>2, <6>1
        <5>2. heard'[t].newest = version' /\ heard'[t].by = "info"
          BY <1>1, <2>2, <2>6, <3>0, <3>2, <5>1
        <5> QED
          BY <5>2 DEF CoveredBy
      <4>3. CASE since[t] = version
        BY <1>1, <4>3 DEF CoveredBy
      <4>4. CASE since[t] = -1 /\ InfoOwes
        <5>1. CASE fetches > 0 \/ "info" \in rest_failed
          BY <1>1, <4>4, <5>1 DEF CoveredBy, InfoOwes
        <5>2. ASSUME NEW i \in DOMAIN events["info"],
                     events["info"][i].kind = "position", events["info"][i].version = version
              PROVE  CoveredBy(t)'
          <6>1. CASE i = 1
            <7>1. m.version = version
              BY <1>3, <1>6, <3>2, <5>2, <6>1
            <7>2. heard'[t].version = version'
              BY <1>1, <2>6, <3>0, <7>1
            <7> QED
              BY <7>2 DEF CoveredBy
          <6>2. CASE i # 1
            <7>1. i - 1 \in DOMAIN events'["info"] /\ events'["info"][i - 1] = events["info"][i]
              BY <1>3, <1>6, <1>7, <3>2, <5>2, <6>2
            <7>2. InfoOwes'
              BY <1>1, <5>2, <7>1 DEF InfoOwes
            <7> QED
              BY <1>1, <4>4, <7>2 DEF CoveredBy
          <6> QED
            BY <6>1, <6>2
        <5> QED
          BY <4>4, <5>1, <5>2 DEF InfoOwes
      <4> QED
        BY <3>0, <4>1, <4>2, <4>3, <4>4 DEF CoveredBy
    <3> QED
      BY <3>1, <3>2 DEF Enqueuer
  <2> QED
    BY <1>0, <1>1, <1>8, <2>8, <2>9, <2>11, <2>12, StillTrue DEF ListenerInv
<1>12. CASE m.kind # "position"
  <2>1. UNCHANGED <<position, heard>>
    BY <1>3, <1>5, <1>12 DEF Listen
  <2>2. by = "info"
    BY <1>10, <1>12 DEF Enqueuer
  <2>3. events'["worker"] = events["worker"]
    BY <1>7, <1>9, <2>2
  <2>4. InfoOwes => InfoOwes'
    <3>1. ASSUME NEW i \in DOMAIN events["info"],
                 events["info"][i].kind = "position", events["info"][i].version = version
          PROVE  InfoOwes'
      <4>1. i # 1
        BY <1>3, <1>6, <1>12, <2>2, <3>1
      <4>2. i - 1 \in DOMAIN events'["info"] /\ events'["info"][i - 1] = events["info"][i]
        BY <1>3, <1>6, <1>7, <2>2, <3>1, <4>1
      <4> QED
        BY <1>1, <3>1, <4>2 DEF InfoOwes
    <3>2. CASE fetches > 0 \/ "info" \in rest_failed
      BY <1>1, <3>2 DEF InfoOwes
    <3> QED
      BY <3>1, <3>2 DEF InfoOwes
  <2>5. loaded' \in BOOLEAN
    BY <1>0, <1>1 DEF ListenerTypeOK
  <2>6. rest_failed' \in SUBSET Enqueuer /\ fetches' \in Nat
    BY <1>0, <1>1 DEF ListenerTypeOK
  <2> QED
    BY <1>1, <1>7, <1>8, <2>1, <2>3, <2>4, <2>5, <2>6, InfoSideKeeps
<1> QED
  BY <1>11, <1>12

\* Every step keeps the invariant.
LEMMA ListenerStep == ListenerInv /\ [Next]_vars => ListenerInv'
<1> SUFFICES ASSUME ListenerInv, [Next]_vars
             PROVE  ListenerInv'
  OBVIOUS
<1>1. CASE Next
  BY <1>1, TradeKeeps, SocketKeeps, WorkerKeeps, PublishKeeps, FetchKeeps, SubscribersKeep,
     ListenKeeps DEF Next, InfoStep
<1>2. CASE UNCHANGED vars
  <2>1. UNCHANGED <<holding, version, up, stream, events, fetches, loaded, subscribed, position,
                    heard, since, rest_failed>>
    BY <1>2 DEF vars, venueVars, socketVars, infoVars, serverVars, viewVars, restVars
  <2> QED
    BY <2>1 DEF ListenerInv, ListenerTypeOK, MessagesTrue, Says, HeardTrue, WorkerFresh, WorkerOwes,
                Covered, CoveredBy, InfoOwes
<1> QED
  BY <1>1, <1>2

\* Once everything is delivered a subscribed trader has the venue's position, but for
\* the three holes of the "authoritative state" path, for any traders and any number of
\* changes, drops, subscriptions and failed fetches.
THEOREM PositionStaysKnown == Spec => []PositionKnown
<1>1. ListenerInv => PositionKnown
  <2> SUFFICES ASSUME ListenerInv, Settled, NEW t \in subscribed
               PROVE  position[t] = holding \/ Uninformed(t) \/ Overwritten(t) \/ ClosedUnseen(t)
    BY DEF PositionKnown
  <2>0. ListenerTypeOK /\ HeardTrue /\ Covered
    BY DEF ListenerInv
  <2>1. /\ up /\ stream = <<>> /\ fetches = 0 /\ rest_failed = {}
        /\ events["worker"] = <<>> /\ events["info"] = <<>>
    BY DEF Settled, Enqueuer
  <2>2. /\ heard[t].version \in Int /\ heard[t].newest \in Int /\ version \in Nat
        /\ heard[t].version <= heard[t].newest /\ heard[t].newest <= version
        /\ heard[t].version = version => position[t] = holding
    BY <2>0 DEF ListenerTypeOK, HeardTrue
  <2>3. CoveredBy(t)
    BY <2>0 DEF Covered
  <2>4. (\A i \in DOMAIN stream : FALSE) /\ (\A i \in DOMAIN events["info"] : FALSE)
    BY <2>1
  <2>5. ~InfoOwes
    BY <2>1, <2>4 DEF InfoOwes
  <2>6. WorkerOwes => holding = 0
    BY <2>1, <2>4 DEF WorkerOwes
  <2>7. CASE heard[t].version = version
    BY <2>2, <2>7
  <2>8. CASE heard[t].version # version
    <3>1. heard[t].version < version
      BY <2>2, <2>8
    <3>2. \/ WorkerOwes \/ since[t] = version
          \/ heard[t].by = "info" /\ heard[t].newest = version
      BY <2>1, <2>3, <2>5, <2>8 DEF CoveredBy
    <3>3. CASE WorkerOwes
      BY <2>6, <3>1, <3>3 DEF ClosedUnseen
    <3>4. CASE since[t] = version
      BY <3>1, <3>4 DEF Uninformed
    <3>5. CASE heard[t].by = "info" /\ heard[t].newest = version
      BY <3>1, <3>5 DEF Overwritten
    <3> QED
      BY <3>2, <3>3, <3>4, <3>5
  <2> QED
    BY <2>7, <2>8
<1> QED
  BY <1>1, ListenerInit, ListenerStep, PTL DEF Spec
=============================================================================
