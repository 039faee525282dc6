------------------------------ MODULE Reading ------------------------------
(***************************************************************************)
(* What the model is allowed to read: the selection of materials for a     *)
(* question or a summary (domain/repository.py), the context assembled by  *)
(* the worker (domain/context.py, domain/runs.py), the earlier answers fed *)
(* back as history, and the reuse of summaries (domain/summaries.py).      *)
(*                                                                         *)
(* A text is the set of sources it was made from, directly or through an   *)
(* earlier answer in its prompt.  A source has one version.  One topic; an *)
(* entity is a chat message or a summary, numbered in the order they are   *)
(* created, and its job is claimed by one worker at a time (Answers).      *)
(***************************************************************************)
EXTENDS Naturals, FiniteSets

CONSTANTS Docs,         \* sources of the topic
          Entities,     \* bound: 1 .. how many questions and summaries
          HistoryTurns, \* answer_history_turns
          Upsets        \* bound: workers killed and requests sent again

ASSUME ReadingAssumption ==
    /\ Entities \subseteq Nat
    /\ HistoryTurns \in Nat
    /\ Upsets \in Nat

VARIABLES material,  \* per source: usable (ready, selected), unusable, deleted
          entity,    \* rows of chat_messages and summaries
          output,    \* the generation of each entity's current key
          reader,    \* the worker on each entity
          mixed,     \* history: entities whose text and recorded versions
                     \* come from different runs
          upsets

readingVars == <<material, entity, output, reader, mixed, upsets>>

Open == {"queued", "running"}
None == {"none"}      \* no text at all; the empty set is a text

NoEntity == [kind |-> "none", status |-> "none", attempt |-> 0, job |-> "none",
             requested |-> {}, versions |-> {}, text |-> None,
             answered |-> FALSE]
NoReader == [pc |-> "idle", attempt |-> 0, versions |-> {}, prompt |-> {},
             pure |-> TRUE]

ReadingInit ==
    /\ material = [s \in Docs |-> "usable"]
    /\ entity = [e \in Entities |-> NoEntity]
    /\ output = [e \in Entities |-> None]
    /\ reader = [e \in Entities |-> NoReader]
    /\ mixed = {}
    /\ upsets = 0

-----------------------------------------------------------------------------
(* The user.                                                               *)

\* update() selects a source or not; one that is ready may fail or be read
\* in again.
Toggle(s) ==
    /\ material[s] /= "deleted"
    /\ material' = [material EXCEPT ![s] =
                       IF @ = "usable" THEN "unusable" ELSE "usable"]
    /\ UNCHANGED <<entity, output, reader, mixed, upsets>>

RemoveSource(s) ==
    /\ material[s] /= "deleted"
    /\ material' = [material EXCEPT ![s] = "deleted"]
    /\ UNCHANGED <<entity, output, reader, mixed, upsets>>

\* What an answer or a summary may use right now.
Usable == {s \in Docs : material[s] = "usable"}

\* resolve_selection(): a request narrows that set and never widens it.
Resolve(requested) == Usable \cap requested

\* _reusable(): succeeded over exactly these versions.
Reusable(wanted) ==
    {e \in Entities : /\ entity[e].kind = "summary"
                      /\ entity[e].status = "succeeded"
                      /\ entity[e].versions = wanted}

\* ask() and create(); a summary that can be reused is not created.
Create(e, kind, requested) ==
    LET usable == Resolve(requested) IN
    /\ entity[e].kind = "none"
    /\ \A d \in Entities : d < e => entity[d].kind /= "none"
    /\ usable /= {}
    /\ kind = "summary" => Reusable(usable) = {}
    /\ entity' = [entity EXCEPT ![e] =
          [NoEntity EXCEPT !.kind = kind, !.status = "queued", !.attempt = 1,
                           !.job = "queued", !.requested = usable,
                           !.versions = usable]]
    /\ UNCHANGED <<material, output, reader, mixed, upsets>>

\* cancel() drops the job only if no worker has it.
Cancel(e) ==
    /\ entity[e].status \in Open
    /\ entity' = [entity EXCEPT ![e].status = "canceled",
                    ![e].job = IF @ = "queued" THEN "none" ELSE @]
    /\ UNCHANGED <<material, output, reader, mixed, upsets>>

\* retry(): a new key and a new selection, under the old job if that is
\* still active.
Resend(e) ==
    LET usable == Resolve(entity[e].requested) IN
    /\ entity[e].status \in {"failed", "canceled"}
    /\ upsets < Upsets
    /\ upsets' = upsets + 1
    /\ usable /= {}
    /\ entity' = [entity EXCEPT ![e].status = "queued", ![e].attempt = @ + 1,
                    ![e].versions = usable, ![e].text = None,
                    ![e].answered = FALSE,
                    ![e].job = IF @ = "none" THEN "queued" ELSE @]
    /\ output' = [output EXCEPT ![e] = None]
    /\ UNCHANGED <<material, reader, mixed>>

-----------------------------------------------------------------------------
(* The worker.                                                             *)

\* claim(), and the first look of run_answer() and run_summary().
Begin(e) ==
    /\ reader[e].pc = "idle"
    /\ entity[e].job /= "none"
    /\ IF entity[e].status \in Open
         THEN /\ entity' = [entity EXCEPT ![e].status = "running",
                                          ![e].job = "running"]
              /\ reader' = [reader EXCEPT ![e] =
                    [NoReader EXCEPT !.pc = "assemble",
                                     !.attempt = entity[e].attempt,
                                     !.versions = entity[e].versions]]
         ELSE /\ entity' = [entity EXCEPT ![e].job = "none"]
              /\ UNCHANGED reader
    /\ UNCHANGED <<material, output, mixed, upsets>>

\* Variant: earlier answers are fed back whatever they were made from.
HistoryUnfiltered(e, allowed) ==
    {d \in Entities : /\ d < e /\ entity[d].kind = "answer"
                      /\ entity[d].status = "succeeded" /\ entity[d].answered}

\* answer_history(), before its limit: earlier answers all of whose sources
\* are in the context.
History(e, allowed) ==
    {d \in Entities : /\ d < e /\ entity[d].kind = "answer"
                      /\ entity[d].status = "succeeded" /\ entity[d].answered
                      /\ entity[d].versions \subseteq allowed}

\* The turns of history: the latest of the eligible answers.
Turns(e, allowed) ==
    LET h == History(e, allowed) IN
    {d \in h : Cardinality({c \in h : c > d}) < HistoryTurns}

\* Variant: the versions recorded when the request was sent stay.
AssembleKeepsVersions(e) ==
    LET ctx == reader[e].versions \cap Usable
        turns == IF entity[e].kind = "answer" THEN Turns(e, ctx) ELSE {}
        fed == UNION {entity[d].text : d \in turns} IN
    /\ reader[e].pc = "assemble"
    /\ IF ctx = {}
         THEN /\ entity' = [entity EXCEPT ![e].status = "failed",
                                          ![e].job = "none"]
              /\ reader' = [reader EXCEPT ![e] = NoReader]
         ELSE /\ UNCHANGED entity
              /\ reader' = [reader EXCEPT ![e].pc = "generate",
                    ![e].versions = ctx,
                    ![e].prompt = ctx \cup fed,
                    ![e].pure = turns \cap mixed = {}]
    /\ UNCHANGED <<material, output, mixed, upsets>>

\* build_context() filters the versions recorded on the request to those
\* still allowed; they and the history make the prompt, and the versions are
\* recorded again.  Without any the request fails.
Assemble(e) ==
    LET ctx == reader[e].versions \cap Usable
        turns == IF entity[e].kind = "answer" THEN Turns(e, ctx) ELSE {}
        fed == UNION {entity[d].text : d \in turns} IN
    /\ reader[e].pc = "assemble"
    /\ IF ctx = {}
         THEN /\ entity' = [entity EXCEPT ![e].job = "none", ![e].status =
                               IF @ = "canceled" THEN @ ELSE "failed"]
              /\ reader' = [reader EXCEPT ![e] = NoReader]
         ELSE /\ entity' = [entity EXCEPT ![e].versions = ctx]
              /\ reader' = [reader EXCEPT ![e].pc = "generate",
                    ![e].versions = ctx,
                    ![e].prompt = ctx \cup fed,
                    ![e].pure = turns \cap mixed = {}]
    /\ UNCHANGED <<material, output, mixed, upsets>>

\* Whether the worker still works on the entity's current key.
Current(e) == reader[e].attempt = entity[e].attempt

Replay(e) == Current(e) /\ output[e] /= None

\* The billed run: a run of this key that has succeeded is replayed, another
\* calls the model, which fails for good or answers from the prompt.
Generate(e) ==
    /\ reader[e].pc = "generate"
    /\ \/ /\ ~Replay(e)
          /\ entity' = [entity EXCEPT ![e].job = "none", ![e].status =
                           IF @ = "canceled" THEN @ ELSE "failed"]
          /\ reader' = [reader EXCEPT ![e] = NoReader]
          /\ UNCHANGED <<output, mixed>>
       \/ /\ Replay(e) \/ entity[e].status /= "canceled"
          /\ reader' = [reader EXCEPT ![e].pc = "store",
                          ![e].prompt = IF Replay(e) THEN output[e] ELSE @]
          /\ output' = IF Current(e)
                         THEN [output EXCEPT ![e] = reader'[e].prompt]
                         ELSE output
          /\ mixed' = IF Replay(e) \/ ~reader[e].pure
                        THEN mixed \cup {e} ELSE mixed
          /\ UNCHANGED entity
    /\ UNCHANGED <<material, upsets>>

\* _finish(): a success is stored over a cancellation, and over a retry.  An
\* answer may say that the materials hold none.  What has succeeded is not
\* run again, so its generation is not read again.
Store(e) ==
    /\ reader[e].pc = "store"
    /\ \E found \in BOOLEAN :
          /\ entity[e].kind = "summary" => found
          /\ entity' = [entity EXCEPT ![e].status = "succeeded",
                ![e].job = "none", ![e].answered = found,
                ![e].text = reader[e].prompt]
    /\ output' = [output EXCEPT ![e] = None]
    /\ mixed' = IF Current(e) THEN mixed ELSE mixed \cup {e}
    /\ reader' = [reader EXCEPT ![e] = NoReader]
    /\ UNCHANGED <<material, upsets>>

\* The worker is killed; its lease runs out.
Crash(e) ==
    /\ reader[e].pc /= "idle"
    /\ upsets < Upsets
    /\ upsets' = upsets + 1
    /\ reader' = [reader EXCEPT ![e] = NoReader]
    /\ UNCHANGED <<material, entity, output, mixed>>

ReadingNext ==
    \/ \E s \in Docs : Toggle(s) \/ RemoveSource(s)
    \/ \E e \in Entities :
          \/ Cancel(e) \/ Resend(e)
          \/ \E kind \in {"answer", "summary"}, req \in SUBSET Docs :
                Create(e, kind, req)
          \/ Begin(e) \/ Assemble(e) \/ Generate(e) \/ Store(e) \/ Crash(e)

ReadingSpec == ReadingInit /\ [][ReadingNext]_readingVars

-----------------------------------------------------------------------------

(***************************************************************************)
(* The isolation boundary of context.py: a prompt holds text only of the   *)
(* sources that were usable when it was put together, history included, as *)
(* long as every answer fed back is one whose recorded versions are those  *)
(* of the run that wrote it.                                               *)
(***************************************************************************)
PromptIsolated ==
    \A e \in Entities :
        reader[e].pc = "generate" /\ reader[e].pure =>
            reader[e].prompt \subseteq reader[e].versions

(***************************************************************************)
(* A summary that create() hands out again instead of a new one was made   *)
(* from all of the wanted sources and from nothing else (summaries.py,     *)
(* "EXACTLY the same source versions"), unless a later run of it recorded  *)
(* other versions than those its text was made from (mixed).               *)
(***************************************************************************)
ReuseIsExact ==
    \A wanted \in SUBSET Docs :
        \A e \in Reusable(wanted) \ mixed : entity[e].text = wanted

(***************************************************************************)
(* context.py: "an old AI answer built on a now-deleted source is not fed  *)
(* back into new answers".  No prompt holds text of a source outside its   *)
(* own context.                                                            *)
(***************************************************************************)
DeletedTextStaysOut ==
    \A e \in Entities :
        reader[e].pc = "generate" =>
            reader[e].prompt \subseteq reader[e].versions

=============================================================================
