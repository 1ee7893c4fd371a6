---------------------------- MODULE EventMonitor ----------------------------
(***************************************************************************)
(* siglab/src/event_monitor.rs: one weather event.  A supervisor looks for *)
(* the buckets of the day's event at every refresh and starts a feed for   *)
(* them; the feed subscribes to all of them at once, subscribes again when *)
(* the stream ends, and drives a reversal and a V-shape engine for each.   *)
(***************************************************************************)
EXTENDS PaperEngine

CONSTANTS
    Ups,            \* mid prices
    Events,         \* bucket sets of the events the refreshes may find
    RefreshSecs

Kinds == {"v_shape", "bucket"}

VARIABLES
    now,
    feed,           \* buckets of the running feed, {} when there is none
    subscribed,     \* its price stream is open
    engines,        \* <<bucket, kind>> -> engine of the running feed
    refreshed,      \* time of the last refresh
    sent

eventVars == <<feed, subscribed, engines, refreshed>>

EventInit ==
    /\ feed = {} /\ subscribed = FALSE /\ refreshed = -RefreshSecs
    /\ engines = [x \in {} |-> NewEngine("bucket")]

FreshEngines(buckets) == [x \in buckets \X Kinds |-> NewEngine(x[2])]

(* The running feed is aborted, with the positions its engines hold.       *)
RefreshFinds(buckets) ==
    /\ now - refreshed >= RefreshSecs
    /\ feed' = buckets /\ subscribed' = FALSE
    /\ engines' = FreshEngines(buckets)
    /\ refreshed' = now /\ sent' = {} /\ UNCHANGED now

(* No event today, no Yes token, or Gamma does not answer.                 *)
RefreshFails ==
    /\ now - refreshed >= RefreshSecs
    /\ refreshed' = now /\ sent' = {}
    /\ UNCHANGED <<now, feed, subscribed, engines>>

Subscribe ==
    /\ feed # {} /\ ~subscribed /\ subscribed' = TRUE /\ sent' = {}
    /\ UNCHANGED <<now, feed, engines, refreshed>>

(* Engines and latches outlive the stream.                                 *)
StreamCloses ==
    /\ subscribed /\ subscribed' = FALSE /\ sent' = {}
    /\ UNCHANGED <<now, feed, engines, refreshed>>

BucketPrice(b, up) ==
    /\ subscribed /\ b \in feed
    /\ engines' = [x \in DOMAIN engines |->
           IF x[1] = b THEN EngineTick(engines[x], up, now) ELSE engines[x]]
    /\ sent' = {x \in DOMAIN engines : x[1] = b /\ Leaves(engines[x], up, now)}
    /\ UNCHANGED <<now, feed, subscribed, refreshed>>

EventNext ==
    \/ \E buckets \in Events : RefreshFinds(buckets)
    \/ RefreshFails \/ Subscribe \/ StreamCloses
    \/ \E b \in feed, up \in Ups : BucketPrice(b, up)
=============================================================================
