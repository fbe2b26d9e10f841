------------------------------- MODULE Embedding -------------------------------
(***************************************************************************)
(* internal/embedder/embedder.go (EmbedTexts) and internal/llm/provider.go  *)
(* (EmbedBatch).  EmbedTexts sends batches of at most BatchSize texts from  *)
(* up to Concurrency goroutines; the provider's EmbedBatch, asked for more  *)
(* than its ceiling, has a producer goroutine cut the request into chunks   *)
(* and hand their vectors to the caller through a channel of two.  New      *)
(* clamps the batch size to the ceiling, so a behaviour here is one call of *)
(* the one or of the other.  The model server answers a request with a      *)
(* vector for each text, with one too few, or with an error; the vector of  *)
(* text i is i and an empty slot is 0.                                      *)
(***************************************************************************)
EXTENDS Integers, Sequences, FiniteSets, FiniteSetsExt

CONSTANTS
    NTexts,        \* texts 1 .. NTexts are to be embedded
    BatchSize,     \* texts of a batch, and of a chunk (the provider's ceiling)
    Concurrency,   \* batches in flight
    ChanCap        \* capacity of EmbedBatch's channel, 2 in the code

EmbeddingAssumption ==
    /\ NTexts \in Nat \ {0} /\ BatchSize \in Nat \ {0}
    /\ Concurrency \in Nat \ {0} /\ ChanCap \in Nat \ {0}

VARIABLES
    call,       \* "none", "texts" (EmbedTexts) or "batch" (EmbedBatch)
    caller,     \* the caller: "idle", "spawn" / "recv", "wait", "ok", "error"
    next,       \* the first text that no batch or chunk has been begun for
    out,        \* the result slots
    flying,     \* batches whose goroutine runs (their first texts)
    failed,     \* batches that left an error
    producer,   \* EmbedBatch's goroutine: "none", "ask", "send", "closed"
    item,       \* what the producer has to send
    chan,       \* the channel results
    ctx,        \* the call's context: "live" or "done"
    unsent      \* history: the texts whose vector the server left out of an answer

vars == <<call, caller, next, out, flying, failed, producer, item, chan, ctx, unsent>>

Init ==
    /\ call = "none" /\ caller = "idle" /\ next = 1
    /\ out = [i \in 1 .. NTexts |-> 0]
    /\ flying = {} /\ failed = {}
    /\ producer = "none" /\ item = <<>> /\ chan = <<>>
    /\ ctx = "live" /\ unsent = {}

EndOf(start) == Min({start + BatchSize - 1, NTexts})

(* What the server can answer for the texts start .. EndOf(start): a record *)
(* with the vectors of the first n of them, or an error.                    *)
Replies(start) ==
    {[start |-> start, n |-> n, err |-> FALSE] :
        n \in {EndOf(start) - start, EndOf(start) - start + 1}}
    \cup {[start |-> start, n |-> 0, err |-> TRUE]}

Answer(r) == unsent' = unsent \cup (IF r.err THEN {} ELSE r.start + r.n .. EndOf(r.start))

Fill(slots, r) ==
    [i \in 1 .. NTexts |-> IF i \in r.start .. r.start + r.n - 1 THEN i ELSE slots[i]]

-----------------------------------------------------------------------------
(* EmbedTexts. *)

EmbedTexts ==
    /\ call = "none"
    /\ call' = "texts" /\ caller' = "spawn"
    /\ UNCHANGED <<next, out, flying, failed, producer, item, chan, ctx, unsent>>

(* One turn of the loop: it waits for a place in sem, without looking at    *)
(* the context, and starts the batch.                                       *)
Spawn ==
    /\ call = "texts" /\ caller = "spawn"
    /\ IF next > NTexts
       THEN caller' = "wait" /\ UNCHANGED <<next, flying>>
       ELSE /\ Cardinality(flying) < Concurrency
            /\ flying' = flying \cup {next}
            /\ next' = EndOf(next) + 1
            /\ UNCHANGED caller
    /\ UNCHANGED <<call, out, failed, producer, item, chan, ctx, unsent>>

(* A mutant: the number of vectors is not checked.                          *)
ShortBatch_Accepted(b, r) == FALSE

(* The check of the number of vectors that came for a batch.                *)
ShortBatch(b, r) == b + r.n # EndOf(b) + 1

(* A batch ends: the provider's error, or one for a wrong number of         *)
(* vectors, is kept in errs; otherwise the vectors go to their slots.       *)
BatchEnds(b) ==
    /\ b \in flying
    /\ \E r \in Replies(b) :
           /\ ctx = "done" => r.err
           /\ Answer(r)
           /\ IF r.err \/ ShortBatch(b, r)
              THEN failed' = failed \cup {b} /\ UNCHANGED out
              ELSE out' = Fill(out, r) /\ UNCHANGED failed
    /\ flying' = flying \ {b}
    /\ UNCHANGED <<call, caller, next, producer, item, chan, ctx>>

(* wg.Wait returns, and the first error there is is returned. *)
Waited ==
    /\ call = "texts" /\ caller = "wait" /\ flying = {}
    /\ caller' = IF failed = {} THEN "ok" ELSE "error"
    /\ UNCHANGED <<call, next, out, flying, failed, producer, item, chan, ctx, unsent>>

-----------------------------------------------------------------------------
(* EmbedBatch for more texts than the ceiling. *)

EmbedBatch ==
    /\ call = "none"
    /\ call' = "batch" /\ caller' = "recv" /\ producer' = "ask"
    /\ UNCHANGED <<next, out, flying, failed, item, chan, ctx, unsent>>

(* A mutant: without the deferred close the producer just leaves.           *)
Ask_NoClose ==
    /\ producer = "ask"
    /\ IF next > NTexts
       THEN producer' = "left" /\ UNCHANGED <<next, item, unsent>>
       ELSE /\ \E r \in Replies(next) :
                   (ctx = "done" => r.err) /\ Answer(r) /\ item' = <<r>>
            /\ producer' = "send"
            /\ next' = EndOf(next) + 1
    /\ UNCHANGED <<call, caller, out, flying, failed, chan, ctx>>

(* The producer asks for the next chunk; after the last one it closes.      *)
Ask ==
    /\ producer = "ask"
    /\ IF next > NTexts
       THEN producer' = "closed" /\ UNCHANGED <<next, item, unsent>>
       ELSE /\ \E r \in Replies(next) :
                   (ctx = "done" => r.err) /\ Answer(r) /\ item' = <<r>>
            /\ producer' = "send"
            /\ next' = EndOf(next) + 1
    /\ UNCHANGED <<call, caller, out, flying, failed, chan, ctx>>

(* Its select: a place in the channel, after an error the last one it uses, *)
(* or else GiveUp: the end of the context.                                  *)
Send ==
    /\ producer = "send" /\ Len(chan) < ChanCap
    /\ chan' = chan \o item
    /\ item' = <<>>
    /\ producer' = IF item[1].err THEN "closed" ELSE "ask"
    /\ UNCHANGED <<call, caller, next, out, flying, failed, ctx, unsent>>

GiveUp ==
    /\ producer = "send" /\ ctx = "done"
    /\ producer' = "closed" /\ item' = <<>>
    /\ UNCHANGED <<call, caller, next, out, flying, failed, chan, ctx, unsent>>

(* The caller takes a result: an error ends the call, and the deferred      *)
(* cancel ends the context.                                                 *)
Receive ==
    /\ caller = "recv" /\ chan # <<>>
    /\ chan' = Tail(chan)
    /\ IF Head(chan).err
       THEN caller' = "error" /\ ctx' = "done" /\ UNCHANGED out
       ELSE out' = Fill(out, Head(chan)) /\ UNCHANGED <<caller, ctx>>
    /\ UNCHANGED <<call, next, flying, failed, producer, item, unsent>>

(* The channel is closed and empty: the slots and ctx.Err() are returned.   *)
Drained ==
    /\ caller = "recv" /\ chan = <<>> /\ producer = "closed"
    /\ caller' = IF ctx = "done" THEN "error" ELSE "ok"
    /\ ctx' = "done"
    /\ UNCHANGED <<call, next, out, flying, failed, producer, item, chan, unsent>>

(* The context of the caller is cancelled, or the call's time is over.      *)
Cancel ==
    /\ ctx = "live" /\ caller \in {"spawn", "recv", "wait"}
    /\ ctx' = "done"
    /\ UNCHANGED <<call, caller, next, out, flying, failed, producer, item, chan, unsent>>

Next ==
    \/ EmbedTexts \/ Spawn \/ Waited
    \/ \E b \in flying : BatchEnds(b)
    \/ EmbedBatch \/ Ask \/ Send \/ GiveUp \/ Receive \/ Drained
    \/ Cancel

Spec == Init /\ [][Next]_vars

(* The goroutines run, and the server answers each request or the client's  *)
(* timeout does.                                                            *)
Fairness ==
    /\ WF_vars(Spawn) /\ WF_vars(Waited)
    /\ \A b \in 1 .. NTexts : WF_vars(BatchEnds(b))
    /\ WF_vars(Ask) /\ WF_vars(Send \/ GiveUp) /\ WF_vars(Receive) /\ WF_vars(Drained)

-----------------------------------------------------------------------------
(* A call of EmbedTexts without error has the vector of every text in that  *)
(* text's slot, however the batches, failures and cancellations fell out.   *)
(* A call of EmbedBatch without error has it, too, but for the texts whose  *)
(* vector the server left out of an answer: EmbedBatch does not count what  *)
(* it got, and their slots are empty.                                       *)
OkMeansEverySlot ==
    caller = "ok" =>
        \A i \in 1 .. NTexts : out[i] = i \/ (call = "batch" /\ i \in unsent /\ out[i] = 0)

(* Whatever fails or is cancelled, the caller returns and no goroutine is   *)
(* left: the producer closes the channel the caller ranges over, and does   *)
(* not stay at a full one that nobody reads.                                *)
EveryoneEnds ==
    call # "none" ~> caller \in {"ok", "error"} /\ flying = {} /\ producer \in {"none", "closed"}
=============================================================================
