--------------------------- MODULE MarketListener ---------------------------
(***************************************************************************)
(* How traders learn their position and their tick: MarketListener         *)
(* (market_listener/market_listener.cpp) around the Binance adapter.       *)
(*                                                                         *)
(* ACCOUNT_UPDATEs come over the user socket and are lost while it is      *)
(* down; a REST snapshot is fetched when it opens (by the adapter's        *)
(* worker) and when a trader subscribes (by the product-info thread, at    *)
(* most one per window).  That thread also fetches the ticks.  All of it   *)
(* goes through event_queue_, FIFO per enqueuing thread only, from which   *)
(* listen() broadcasts to whoever is subscribed.                           *)
(*                                                                         *)
(* One product.  Its position at the venue is `holding`; `version` counts  *)
(* its changes and goes with every message as history.  ExchangeSocket     *)
(* models the socket's redialling, which here only goes down and up, and   *)
(* FeedServer the broadcast, which here is one step.                       *)
(***************************************************************************)
EXTENDS Integers, Sequences

CONSTANTS
  Trader,         \* the traders whose view is followed; there are others
  Balance,        \* the positions considered
  MaxChanges,     \* bound: how often the position changes
  MaxDrops,       \* bound: how often the user socket goes down
  MaxSubscribes,  \* bound: how often traders subscribe, again after a lost link too
  MaxFailures     \* bound: REST calls that fail

ASSUME ListenerAssumption ==
  /\ 0 \in Balance
  /\ {MaxChanges, MaxDrops, MaxSubscribes, MaxFailures} \subseteq Nat

VARIABLES
  \* at the venue
  holding, version,
  \* the user socket: it is up; what its client put on ws_event_queue_
  up, stream, drops,
  \* event_queue_, per enqueuing thread
  events,
  \* the product-info thread: "startup", "serving" or, in the mutant, "dead"; the
  \* user-state fetches posted to it; exchangeInfo has been loaded into filters_
  info, fetches, loaded,
  \* last_user_state_publish_ms_ is less than MIN_USER_STATE_INTERVAL_MS ago
  recent,
  \* the broadcast server: who is subscribed, how often anyone was, whether the
  \* retained product info has a tick
  subscribed, subscribes, retained,
  \* each trader: position_in_lots, product_info.tick_size.has_value()
  position, tick_known,
  \* history: what each trader last heard about the position; the version it was at
  \* when it subscribed without a fetch of its own; who failed at its last fetch
  heard, since, rest_failed,
  failures

venueVars == <<holding, version>>
socketVars == <<up, stream, drops>>
infoVars == <<info, fetches, loaded>>
serverVars == <<recent, subscribed, subscribes, retained>>
viewVars == <<position, tick_known, heard, since>>
restVars == <<rest_failed, failures>>
vars == <<venueVars, socketVars, events, infoVars, serverVars, viewVars, restVars>>

\* The queue's producers: the adapter's worker, the product-info thread.
Enqueuer == {"worker", "info"}

Unheard == [version |-> -1, newest |-> -1, by |-> "worker"]

Init ==
  /\ holding \in Balance /\ version = 0
  /\ up = FALSE /\ stream = <<>> /\ drops = 0
  /\ events = [by \in Enqueuer |-> <<>>]
  /\ info = "startup" /\ fetches = 0 /\ loaded = FALSE
  /\ recent = FALSE /\ subscribed = {} /\ subscribes = 0 /\ retained = FALSE
  /\ position = [t \in Trader |-> 0]
  /\ tick_known = [t \in Trader |-> FALSE]
  /\ heard = [t \in Trader |-> Unheard]
  /\ since = [t \in Trader |-> -1]
  /\ rest_failed = {} /\ failures = 0

Fails == failures < MaxFailures /\ failures' = failures + 1

Enqueue(by, msg) == events' = [events EXCEPT ![by] = Append(@, msg)]
-----------------------------------------------------------------------------
(* The venue and the user socket.                                          *)

PositionMsg(b, v) == [kind |-> "position", balance |-> b, version |-> v]

\* The position changes; the ACCOUNT_UPDATE is only sent to an open socket.
VenueTrades ==
  /\ version < MaxChanges
  /\ holding' \in Balance \ {holding}
  /\ version' = version + 1
  /\ stream' = IF up THEN Append(stream, PositionMsg(holding', version')) ELSE stream
  /\ UNCHANGED <<up, drops, events, infoVars, serverVars, viewVars, restVars>>

SocketOpens ==
  /\ ~up /\ up' = TRUE
  /\ stream' = Append(stream, [kind |-> "opened"])
  /\ UNCHANGED <<venueVars, drops, events, infoVars, serverVars, viewVars, restVars>>

SocketDrops ==
  /\ up /\ up' = FALSE
  /\ drops < MaxDrops /\ drops' = drops + 1
  /\ UNCHANGED <<venueVars, stream, events, infoVars, serverVars, viewVars, restVars>>
-----------------------------------------------------------------------------
(* The adapter.                                                            *)

\* publish_user_state, of which positions matter here: one of zero is not in the
\* snapshot, and a fetch that fails is not repeated.
PublishUserState(by) ==
  \/ /\ UNCHANGED failures /\ rest_failed' = rest_failed \ {by}
     /\ IF holding = 0 THEN UNCHANGED events ELSE Enqueue(by, PositionMsg(holding, version))
  \/ Fails /\ rest_failed' = rest_failed \cup {by} /\ UNCHANGED events

\* worker_loop: on_user_open, or an ACCOUNT_UPDATE in handle_user_payload.
WorkerTakes ==
  /\ stream # <<>> /\ stream' = Tail(stream)
  /\ LET m == Head(stream)
     IN  IF m.kind = "opened" THEN PublishUserState("worker")
         ELSE Enqueue("worker", m) /\ UNCHANGED restVars
  /\ UNCHANGED <<venueVars, up, drops, infoVars, serverVars, viewVars>>

\* publish_product_info: load() keeps the filters it has when the call fails, and
\* filter() makes a tick of zero of what was never loaded.
PublishProductInfo ==
  /\ \/ loaded' = TRUE /\ UNCHANGED failures
     \/ Fails /\ UNCHANGED loaded
  /\ Enqueue("info", [kind |-> "info", tick |-> loaded'])
  /\ UNCHANGED rest_failed
-----------------------------------------------------------------------------
(* The product-info thread.                                                *)

\* Mutant: a fetch that fails at startup takes the thread with it.
InfoStartupOnce ==
  /\ info = "startup"
  /\ PublishProductInfo
  /\ info' = IF loaded' THEN "serving" ELSE "dead"
  /\ UNCHANGED <<venueVars, socketVars, fetches, serverVars, viewVars>>

\* The publish at startup; then the timer is armed and the context run.
InfoStartup ==
  /\ info = "startup" /\ info' = "serving"
  /\ PublishProductInfo
  /\ UNCHANGED <<venueVars, socketVars, fetches, serverVars, viewVars>>

\* The refresh timer.  (Once a tick is retained it has nothing new to say.)
InfoRefresh ==
  /\ info = "serving" /\ ~retained /\ events["info"] = <<>>
  /\ PublishProductInfo
  /\ UNCHANGED <<venueVars, socketVars, info, fetches, serverVars, viewVars>>

\* A fetch posted by the subscribe hook.
InfoFetches ==
  /\ info = "serving" /\ fetches > 0
  /\ fetches' = fetches - 1
  /\ PublishUserState("info")
  /\ UNCHANGED <<venueVars, socketVars, info, loaded, serverVars, viewVars>>
-----------------------------------------------------------------------------
(* The broadcast server and the traders.                                   *)

\* on_product_info: a tick of zero is not taken.
TellTick(ts, tick) == [t \in Trader |-> tick_known[t] \/ (t \in ts /\ tick)]

\* Mutant: only the first subscriber gets a fetch.
SubscribeHookFirst ==
  /\ fetches' = IF subscribes > 0 THEN fetches ELSE fetches + 1
  /\ recent' = FALSE

\* should_publish_user_state, and the post it guards.
SubscribeHook ==
  /\ fetches' = IF recent THEN fetches ELSE fetches + 1
  /\ recent' = TRUE

\* SUBSCRIBE_PRODUCT: the retained product info is replayed, the hook called.
Subscribe(t) ==
  /\ t \notin subscribed /\ subscribes < MaxSubscribes
  /\ subscribes' = subscribes + 1
  /\ subscribed' = subscribed \cup {t}
  /\ tick_known' = TellTick({t}, retained)
  /\ since' = [since EXCEPT ![t] = IF recent THEN version ELSE -1]
  /\ SubscribeHook
  /\ UNCHANGED <<venueVars, socketVars, events, info, loaded, retained, position, heard,
                 restVars>>

\* Some other trader does.
OtherSubscribes ==
  /\ subscribes < MaxSubscribes
  /\ subscribes' = subscribes + 1
  /\ SubscribeHook
  /\ UNCHANGED <<venueVars, socketVars, events, info, loaded, subscribed, retained, viewVars,
                 restVars>>

\* A trader's link is lost; it keeps what it knows.
LinkLost(t) ==
  /\ t \in subscribed /\ subscribed' = subscribed \ {t}
  /\ UNCHANGED <<venueVars, socketVars, events, infoVars, recent, subscribes, retained,
                 viewVars, restVars>>

\* MIN_USER_STATE_INTERVAL_MS is over.
WindowPasses ==
  /\ recent /\ recent' = FALSE
  /\ UNCHANGED <<venueVars, socketVars, events, infoVars, subscribed, subscribes, retained,
                 viewVars, restVars>>

\* on_position of the subscribed traders.
TellPosition(m, by) ==
  /\ position' = [t \in Trader |-> IF t \in subscribed THEN m.balance ELSE position[t]]
  /\ heard' = [t \in Trader |->
       IF t \in subscribed
       THEN [version |-> m.version, by |-> by,
             newest |-> IF m.version > heard[t].newest THEN m.version ELSE heard[t].newest]
       ELSE heard[t]]

\* listen(): a position is broadcast, product info also retained.
Listen(by) ==
  /\ events[by] # <<>> /\ events' = [events EXCEPT ![by] = Tail(@)]
  /\ LET m == Head(events[by])
     IN  IF m.kind = "position"
         THEN TellPosition(m, by) /\ UNCHANGED <<tick_known, retained>>
         ELSE /\ tick_known' = TellTick(subscribed, m.tick)
              /\ retained' = m.tick
              /\ UNCHANGED <<position, heard>>
  /\ UNCHANGED <<venueVars, socketVars, infoVars, recent, subscribed, subscribes, since, restVars>>

InfoStep == InfoStartup \/ InfoRefresh \/ InfoFetches

Next ==
  \/ VenueTrades \/ SocketOpens \/ SocketDrops
  \/ WorkerTakes \/ InfoStep
  \/ \E t \in Trader : Subscribe(t) \/ LinkLost(t)
  \/ OtherSubscribes \/ WindowPasses
  \/ \E by \in Enqueuer : Listen(by)

\* The product-info thread and the main loop run; the refresh is not disabled
\* (product_info_refresh_sec > 0, the default).
Spec ==
  /\ Init /\ [][Next]_vars
  /\ WF_vars(InfoStep)
  /\ \A by \in Enqueuer : WF_vars(Listen(by))
-----------------------------------------------------------------------------
(* Properties.                                                             *)

\* Every message has been taken, and neither thread failed at its last fetch.
Settled ==
  /\ up /\ stream = <<>> /\ info = "serving" /\ fetches = 0 /\ rest_failed = {}
  /\ \A by \in Enqueuer : events[by] = <<>>

\* The trader subscribed within the window of a fetch made for another, and what
\* it was told last is not as new as its own fetch would have been.
Uninformed(t) == heard[t].version < since[t]

\* The snapshot fetched for a subscriber was broadcast after a newer update.
Overwritten(t) == heard[t].by = "info" /\ heard[t].version < heard[t].newest

\* The trader was not told of the last change, and that one closed the position: the
\* "authoritative state" seeded on every (re)connect and subscription leaves it out.
ClosedUnseen(t) == holding = 0 /\ heard[t].version < version

\* "a trader that starts up without its position is the failure this whole path
\* exists to prevent": whatever the sockets and links miss between them, once
\* everything is delivered each subscribed trader has the venue's position, but for
\* three holes: a fetch coalesced away, a snapshot that overtook nothing but was
\* broadcast after a newer update, and a position that was closed unseen, since a
\* zero is not in the snapshot.
PositionKnown ==
  Settled => \A t \in subscribed :
    position[t] = holding \/ Uninformed(t) \/ Overwritten(t) \/ ClosedUnseen(t)

\* "one failed exchangeInfo call at startup silently stopped trading until someone
\* restarted the listener": now a trader that stays subscribed learns its tick,
\* whether it subscribes before or after the call that succeeds.
TickLearned == \A t \in Trader : t \in subscribed ~> (tick_known[t] \/ t \notin subscribed)
=============================================================================
