----------------------------- MODULE ProgressFeed -----------------------------
(***************************************************************************)
(* What the event logs of the uploads promise those who follow them,       *)
(* without saying how: a feed only grows, its job is silent after a final  *)
(* event, a subscriber stays with one feed and has been sent an unbroken   *)
(* beginning of it, and one that was sent to the end missed nothing that   *)
(* the job said or ever will.  UploadProgress refines it (see              *)
(* UploadProgress!Feed).                                                   *)
(***************************************************************************)
EXTENDS Integers, Sequences

CONSTANTS
    Jobs,
    AllEvents,    \* what can be published in a feed
    OwnEvents,    \* the events of the job itself
    FinalEvents,  \* those of them that end a feed
    Subscribers

VARIABLES
    feeds,   \* every feed: its job, its events, and whether it is done
    state,   \* each subscriber: "new", "on", "ended" or "left"
    on,      \* the feed it is on, or 0
    got      \* what it was sent

fvars == <<feeds, state, on, got>>

NewFeed(j) == [job |-> j, events |-> <<>>, done |-> FALSE]

FeedInit ==
    /\ feeds = <<>>
    /\ state = [s \in Subscribers |-> "new"]
    /\ on = [s \in Subscribers |-> 0]
    /\ got = [s \in Subscribers |-> <<>>]

Open ==
    /\ \E j \in Jobs : feeds' = Append(feeds, NewFeed(j))
    /\ UNCHANGED <<state, on, got>>

(* Its first conjunct, which the others imply, spares TLC the search for   *)
(* an event when there is none.                                            *)
Publish(f) ==
    /\ feeds'[f] # feeds[f]
    /\ \E e \in AllEvents :
          /\ e \in OwnEvents => ~feeds[f].done
          /\ feeds' = [feeds EXCEPT ![f].events = Append(@, e),
                                    ![f].done = @ \/ e \in FinalEvents]
    /\ UNCHANGED <<state, on, got>>

(* Whoever comes for a job gets a feed of it that is there, or a new one.  *)
Subscribe(s, j) ==
    /\ state[s] = "new"
    /\ state' = [state EXCEPT ![s] = "on"]
    /\ feeds' \in {feeds, Append(feeds, NewFeed(j))}
    /\ \E f \in 1 .. Len(feeds') : feeds'[f].job = j /\ on' = [on EXCEPT ![s] = f]
    /\ got' = [got EXCEPT ![s] = <<>>]

(* The first n events of the feed hold all that its job will say.          *)
Whole(f, n) ==
    /\ feeds[f].done
    /\ \A k \in 1 .. Len(feeds[f].events) : feeds[f].events[k] \in OwnEvents => k =< n

(* More of its feed is sent to a subscriber, or all of it and the end.     *)
Deliver(s) ==
    LET events == feeds[on[s]].events
        n == Len(got'[s])
    IN
    /\ state[s] = "on"
    /\ n \in Len(got[s]) .. Len(events)
    /\ got' = [got EXCEPT ![s] = SubSeq(events, 1, n)]
    /\ \/ UNCHANGED state
       \/ Whole(on[s], n) /\ state' = [state EXCEPT ![s] = "ended"]
    /\ UNCHANGED <<feeds, on>>

Unsubscribe(s) ==
    /\ state[s] = "on"
    /\ state' = [state EXCEPT ![s] = "left"]
    /\ UNCHANGED <<feeds, on, got>>

FeedNext ==
    \/ \E s \in Subscribers : Deliver(s) \/ Unsubscribe(s)
    \/ \E s \in Subscribers, j \in Jobs : Subscribe(s, j)
    \/ \E f \in 1 .. Len(feeds) : Publish(f)
    \/ Open

FeedSpec == FeedInit /\ [][FeedNext]_fvars
=============================================================================
