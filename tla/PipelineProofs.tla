-------------------------- MODULE PipelineProofs ---------------------------
(***************************************************************************)
(* What a run may read, how it asks and what it hands out.  Reading, for   *)
(* any number of materials, requests, turns and upsets: a prompt holds the *)
(* text of nothing outside its own context, and a summary handed out again *)
(* was made from exactly the sources asked for.  Replying, for any number  *)
(* of keys and proxies, any chunks and any citations: the failover loses   *)
(* nothing and repeats nothing, a summary costs no more than was shown for *)
(* it, and every block of a reply is backed by what was found for it.      *)
(* Citing, for any texts and quotes: the chunks cover the text, and the    *)
(* offsets of a citation index it.                                         *)
(*                                                                         *)
(* An entity is worked on by its own reader only, so the first invariant   *)
(* speaks of one entity, its reader and whether it is mixed at a time      *)
(* (Sound); entities meet in Assemble alone, which reads the earlier       *)
(* answers.  The second says what the calls made so far have dealt with.   *)
(* The price and the replies are computed by loops, written as folds in    *)
(* Replying: their lemmas say what each step keeps (the parts cut the      *)
(* chunks in order, Cuts and Fits; they are no more when chunks are left   *)
(* out, FewerParts; a table holds what was added, each once, TableHolds),  *)
(* and the invariants carry it to the reply (PriceInv, BackedInv).         *)
(* Chunking, normalizing and searching are recursive functions: each is    *)
(* shown to exist, and what holds where it stops and from one place to the *)
(* one before holds everywhere (Covers, Maps, Matches).                    *)
(***************************************************************************)
EXTENDS Reading, Replying, Citing, Sums, FiniteSetTheorems, SequenceTheorems, TLAPS

Texts == SUBSET (Docs \cup {"none"})

EntityRecords ==
    [kind: {"none", "answer", "summary"},
     status: {"none", "queued", "running", "succeeded", "failed", "canceled"},
     attempt: Nat, job: {"none", "queued", "running"},
     requested: SUBSET Docs, versions: SUBSET Docs, text: Texts,
     answered: BOOLEAN]

ReaderRecords ==
    [pc: {"idle", "assemble", "generate", "store"}, attempt: Nat,
     versions: SUBSET Docs, prompt: Texts, pure: BOOLEAN]

ReadingTypeOK ==
    /\ material \in [Docs -> {"usable", "unusable", "deleted"}]
    /\ entity \in [Entities -> EntityRecords]
    /\ output \in [Entities -> Texts]
    /\ reader \in [Entities -> ReaderRecords]
    /\ mixed \subseteq Entities

\* A text made from the sources vs: from nothing else and, if it is a
\* summary, from all of them.
Made(text, vs, kind) == text \subseteq vs /\ (kind = "summary" => text = vs)

\* What an entity en, its reader r and the mark m of mixed entities agree on.
\* Whatever a run under the current key has recorded on the entity is what
\* its prompt was made from; a success is not worked on any more.
Sound(en, r, m) ==
    /\ en.kind = "none" => en.status = "none" /\ en.job = "none"
    /\ r.pc /= "idle" => en.kind /= "none" /\ r.attempt <= en.attempt
    /\ en.status = "succeeded" =>
          /\ r.pc = "idle" /\ en.job = "none"
          /\ ~m => Made(en.text, en.versions, en.kind)
    /\ r.pc = "generate" =>
          /\ r.pure => Made(r.prompt, r.versions, en.kind)
          /\ r.attempt = en.attempt => en.versions = r.versions
    /\ r.pc = "store" /\ r.attempt = en.attempt /\ ~m =>
          Made(r.prompt, en.versions, en.kind)

IInv == /\ ReadingTypeOK
        /\ \A e \in Entities : Sound(entity[e], reader[e], e \in mixed)

-----------------------------------------------------------------------------

\* A step on the entity e leaves every other entity as it was.
OnlyAt(e) ==
    /\ material' = material
    /\ \A d \in Entities \ {e} : /\ entity'[d] = entity[d]
                                 /\ reader'[d] = reader[d]
                                 /\ d \in mixed' <=> d \in mixed

\* A step on one entity keeps the invariant if it keeps the types and what is
\* said of that entity.
LEMMA OneMoves ==
    ASSUME IInv, NEW e \in Entities, OnlyAt(e),
           entity' \in [Entities -> EntityRecords],
           output' \in [Entities -> Texts],
           reader' \in [Entities -> ReaderRecords],
           mixed' \subseteq Entities,
           Sound(entity'[e], reader'[e], e \in mixed')
    PROVE  IInv'
<1>1. ReadingTypeOK'
  BY DEF IInv, ReadingTypeOK, OnlyAt
<1>2. ASSUME NEW d \in Entities
      PROVE  Sound(entity[d], reader[d], d \in mixed)'
  <2>1. CASE d = e
    BY <2>1 DEF Sound, Made
  <2>2. CASE d /= e
    <3>1. Sound(entity[d], reader[d], d \in mixed)
      BY DEF IInv
    <3> QED
      BY <3>1, <2>2 DEF OnlyAt, Sound, Made
  <2> QED
    BY <2>1, <2>2
<1> QED
  BY <1>1, <1>2 DEF IInv

\* The initial records are well formed.
LEMMA Blank ==
    NoEntity \in EntityRecords /\ NoReader \in ReaderRecords /\ None \in Texts
  BY DEF NoEntity, EntityRecords, NoReader, ReaderRecords, None, Texts

\* Toggle and RemoveSource touch no entity.
LEMMA MaterialStep ==
    ASSUME IInv, NEW s \in Docs, Toggle(s) \/ RemoveSource(s)
    PROVE  IInv'
<1>1. ReadingTypeOK'
  BY DEF IInv, ReadingTypeOK, Toggle, RemoveSource
<1>2. UNCHANGED <<entity, reader, mixed>>
  BY DEF Toggle, RemoveSource
<1> QED
  BY <1>1, <1>2 DEF IInv, Sound, Made

\* Create starts an entity no reader has seen.
LEMMA CreateStep ==
    ASSUME IInv, NEW e \in Entities, NEW kind \in {"answer", "summary"},
           NEW req \in SUBSET Docs, Create(e, kind, req)
    PROVE  IInv'
<1> DEFINE usable == Resolve(req)
           en == [NoEntity EXCEPT !.kind = kind, !.status = "queued",
                     !.attempt = 1, !.job = "queued", !.requested = usable,
                     !.versions = usable]
<1>1. usable \subseteq Docs
  BY DEF Resolve, Usable
<1>2. en \in EntityRecords
  BY <1>1 DEF NoEntity, EntityRecords, None, Texts
<1>3. entity' = [entity EXCEPT ![e] = en] /\ UNCHANGED <<material, output, reader, mixed>>
  BY DEF Create
<1>4. entity[e].kind = "none" /\ Sound(entity[e], reader[e], e \in mixed)
  BY DEF Create, IInv
<1>5. reader[e].pc = "idle"
  BY <1>4 DEF Sound
<1>6. en.status = "queued" /\ en.kind = kind /\ en.kind /= "none"
  BY DEF NoEntity
<1> HIDE DEF en, usable
<1>7. entity' \in [Entities -> EntityRecords] /\ entity'[e] = en
  BY <1>2, <1>3 DEF IInv, ReadingTypeOK
<1>8. Sound(entity'[e], reader'[e], e \in mixed')
  BY <1>3, <1>5, <1>6, <1>7 DEF Sound
<1>9. OnlyAt(e)
  BY <1>3 DEF OnlyAt, IInv, ReadingTypeOK
<1> QED
  BY <1>3, <1>7, <1>8, <1>9, OneMoves DEF IInv, ReadingTypeOK

\* Cancel leaves the recorded versions and the key alone.
LEMMA CancelStep ==
    ASSUME IInv, NEW e \in Entities, Cancel(e)
    PROVE  IInv'
<1> DEFINE en == [entity[e] EXCEPT !.status = "canceled",
                     !.job = IF @ = "queued" THEN "none" ELSE @]
<1>1. entity[e] \in EntityRecords /\ Sound(entity[e], reader[e], e \in mixed)
  BY DEF IInv, ReadingTypeOK
<1>2. entity' = [entity EXCEPT ![e] = en] /\ UNCHANGED <<material, output, reader, mixed>>
  BY <1>1 DEF Cancel, IInv, ReadingTypeOK, EntityRecords
<1>3. /\ en \in EntityRecords
      /\ en.status = "canceled" /\ en.kind = entity[e].kind
      /\ en.attempt = entity[e].attempt /\ en.versions = entity[e].versions
  BY <1>1 DEF EntityRecords
<1>4. entity[e].status /= "none"
  BY DEF Cancel, Open
<1> HIDE DEF en
<1>5. entity' \in [Entities -> EntityRecords] /\ entity'[e] = en
  BY <1>2, <1>3 DEF IInv, ReadingTypeOK
<1>6. Sound(entity'[e], reader'[e], e \in mixed')
  BY <1>1, <1>2, <1>3, <1>4, <1>5 DEF Sound, Made
<1>7. OnlyAt(e)
  BY <1>2 DEF OnlyAt, IInv, ReadingTypeOK
<1> QED
  BY <1>2, <1>5, <1>6, <1>7, OneMoves DEF IInv, ReadingTypeOK

\* Resend takes a new key, so the reader of the old one is not current.
LEMMA ResendStep ==
    ASSUME IInv, NEW e \in Entities, Resend(e)
    PROVE  IInv'
<1> DEFINE usable == Resolve(entity[e].requested)
           en == [entity[e] EXCEPT !.status = "queued", !.attempt = @ + 1,
                     !.versions = usable, !.text = None, !.answered = FALSE,
                     !.job = IF @ = "none" THEN "queued" ELSE @]
<1>1. /\ entity[e] \in EntityRecords /\ reader[e] \in ReaderRecords
      /\ Sound(entity[e], reader[e], e \in mixed)
  BY DEF IInv, ReadingTypeOK
<1>2. /\ entity' = [entity EXCEPT ![e] = en]
      /\ output' = [output EXCEPT ![e] = None]
      /\ UNCHANGED <<material, reader, mixed>>
  BY <1>1 DEF Resend, IInv, ReadingTypeOK, EntityRecords
<1>3. usable \subseteq Docs
  BY DEF Resolve, Usable
<1>4. /\ en \in EntityRecords
      /\ en.status = "queued" /\ en.kind = entity[e].kind
      /\ en.attempt = entity[e].attempt + 1
  <2>1. entity[e].attempt + 1 \in Nat /\ None \in Texts
    BY <1>1, Blank DEF EntityRecords
  <2> HIDE DEF usable
  <2> QED
    BY <1>1, <1>3, <2>1 DEF EntityRecords
<1>5. entity[e].status \notin {"none", "succeeded"}
  BY DEF Resend
<1> HIDE DEF en, usable
<1>6. entity' \in [Entities -> EntityRecords] /\ entity'[e] = en
  BY <1>2, <1>4 DEF IInv, ReadingTypeOK
<1>7. output' \in [Entities -> Texts]
  BY <1>2, Blank DEF IInv, ReadingTypeOK
<1>8. reader[e].pc /= "idle" => reader[e].attempt < en.attempt
  BY <1>1, <1>4 DEF Sound, EntityRecords, ReaderRecords
<1>9. Sound(entity'[e], reader'[e], e \in mixed')
  <2>1. reader[e].attempt \in Nat /\ en.attempt \in Nat
    BY <1>1, <1>4 DEF EntityRecords, ReaderRecords
  <2> QED
    BY <1>1, <1>2, <1>4, <1>5, <1>6, <1>8, <2>1 DEF Sound
<1>10. OnlyAt(e)
  BY <1>2 DEF OnlyAt, IInv, ReadingTypeOK
<1> QED
  BY <1>2, <1>6, <1>7, <1>9, <1>10, OneMoves DEF IInv, ReadingTypeOK

\* Begin starts a run under the current key, or drops a job that has no work.
LEMMA BeginStep ==
    ASSUME IInv, NEW e \in Entities, Begin(e)
    PROVE  IInv'
<1>1. /\ entity[e] \in EntityRecords /\ reader[e] \in ReaderRecords
      /\ Sound(entity[e], reader[e], e \in mixed)
      /\ UNCHANGED <<material, output, mixed>>
      /\ reader[e].pc = "idle"
  BY DEF IInv, ReadingTypeOK, Begin
<1>2. CASE entity[e].status \in Open
  <2> DEFINE en == [entity[e] EXCEPT !.status = "running", !.job = "running"]
             r == [NoReader EXCEPT !.pc = "assemble",
                      !.attempt = entity[e].attempt,
                      !.versions = entity[e].versions]
  <2>1. /\ entity' = [entity EXCEPT ![e] = en]
        /\ reader' = [reader EXCEPT ![e] = r]
    BY <1>1, <1>2 DEF Begin, IInv, ReadingTypeOK, EntityRecords
  <2>2. /\ en \in EntityRecords
        /\ en.status = "running" /\ en.kind = entity[e].kind
        /\ en.attempt = entity[e].attempt
    BY <1>1 DEF EntityRecords
  <2>3. /\ r \in ReaderRecords
        /\ r.pc = "assemble" /\ r.attempt = entity[e].attempt
    BY <1>1 DEF NoReader, ReaderRecords, EntityRecords, None, Texts
  <2>4. entity[e].kind /= "none"
    BY <1>1, <1>2 DEF Sound, Open
  <2> HIDE DEF en, r
  <2>5. /\ entity' \in [Entities -> EntityRecords] /\ entity'[e] = en
        /\ reader' \in [Entities -> ReaderRecords] /\ reader'[e] = r
    BY <2>1, <2>2, <2>3 DEF IInv, ReadingTypeOK
  <2>6. Sound(entity'[e], reader'[e], e \in mixed')
    <3>1. en.attempt \in Nat
      BY <2>2 DEF EntityRecords
    <3> QED
      BY <2>2, <2>3, <2>4, <2>5, <3>1 DEF Sound
  <2>7. OnlyAt(e)
    BY <1>1, <2>1 DEF OnlyAt, IInv, ReadingTypeOK
  <2> QED
    BY <1>1, <2>5, <2>6, <2>7, OneMoves DEF IInv, ReadingTypeOK
<1>3. CASE entity[e].status \notin Open
  <2> DEFINE en == [entity[e] EXCEPT !.job = "none"]
  <2>1. entity' = [entity EXCEPT ![e] = en] /\ reader' = reader
    BY <1>1, <1>3 DEF Begin, IInv, ReadingTypeOK, EntityRecords
  <2>2. /\ en \in EntityRecords /\ en.job = "none"
        /\ en.status = entity[e].status /\ en.kind = entity[e].kind
        /\ en.versions = entity[e].versions /\ en.text = entity[e].text
    BY <1>1 DEF EntityRecords
  <2> HIDE DEF en
  <2>3. entity' \in [Entities -> EntityRecords] /\ entity'[e] = en
    BY <2>1, <2>2 DEF IInv, ReadingTypeOK
  <2>4. Sound(entity'[e], reader'[e], e \in mixed')
    BY <1>1, <2>1, <2>2, <2>3 DEF Sound, Made
  <2>5. OnlyAt(e)
    BY <1>1, <2>1 DEF OnlyAt, IInv, ReadingTypeOK
  <2> QED
    BY <1>1, <2>1, <2>3, <2>4, <2>5, OneMoves DEF IInv, ReadingTypeOK
<1> QED
  BY <1>2, <1>3

\* A run that ends without a result leaves its reader idle and its entity
\* canceled or failed.
LEMMA GivenUp ==
    ASSUME IInv, NEW e \in Entities, reader[e].pc /= "idle",
           UNCHANGED <<material, output, mixed>>,
           entity' = [entity EXCEPT ![e].job = "none", ![e].status =
                         IF @ = "canceled" THEN @ ELSE "failed"],
           reader' = [reader EXCEPT ![e] = NoReader]
    PROVE  IInv'
<1> DEFINE en == [entity[e] EXCEPT !.job = "none", !.status =
                     IF @ = "canceled" THEN @ ELSE "failed"]
<1>1. entity[e] \in EntityRecords /\ Sound(entity[e], reader[e], e \in mixed)
  BY DEF IInv, ReadingTypeOK
<1>2. entity' = [entity EXCEPT ![e] = en]
  BY <1>1 DEF IInv, ReadingTypeOK, EntityRecords
<1>3. /\ en \in EntityRecords
      /\ en.status \in {"canceled", "failed"} /\ en.kind = entity[e].kind
  BY <1>1 DEF EntityRecords
<1> HIDE DEF en
<1>4. /\ entity' \in [Entities -> EntityRecords] /\ entity'[e] = en
      /\ reader' \in [Entities -> ReaderRecords] /\ reader'[e].pc = "idle"
  BY <1>2, <1>3, Blank DEF IInv, ReadingTypeOK, NoReader
<1>5. Sound(entity'[e], reader'[e], e \in mixed')
  BY <1>1, <1>3, <1>4 DEF Sound
<1>6. OnlyAt(e)
  BY <1>2 DEF OnlyAt, IInv, ReadingTypeOK
<1> QED
  BY <1>4, <1>5, <1>6, OneMoves DEF IInv, ReadingTypeOK

\* Assemble: the context is a part of the usable sources, and the answers fed
\* back that are not mixed were made from parts of the context.
LEMMA AssembleStep ==
    ASSUME IInv, NEW e \in Entities, Assemble(e)
    PROVE  IInv'
<1> DEFINE ctx == reader[e].versions \cap Usable
           turns == IF entity[e].kind = "answer" THEN Turns(e, ctx) ELSE {}
           fed == UNION {entity[d].text : d \in turns}
<1>1. /\ entity[e] \in EntityRecords /\ reader[e] \in ReaderRecords
      /\ Sound(entity[e], reader[e], e \in mixed)
      /\ UNCHANGED <<material, output, mixed>>
      /\ reader[e].pc = "assemble"
  BY DEF IInv, ReadingTypeOK, Assemble
<1>2. CASE ctx = {}
  BY <1>1, <1>2, GivenUp DEF Assemble
<1>3. CASE ctx /= {}
  <2> DEFINE en == [entity[e] EXCEPT !.versions = ctx]
             r == [reader[e] EXCEPT !.pc = "generate", !.versions = ctx,
                      !.prompt = ctx \cup fed, !.pure = turns \cap mixed = {}]
  <2>1. /\ entity' = [entity EXCEPT ![e] = en]
        /\ reader' = [reader EXCEPT ![e] = r]
    BY <1>1, <1>3 DEF Assemble, IInv, ReadingTypeOK, EntityRecords,
                      ReaderRecords
  <2>2. \A d \in turns : /\ d \in Entities
                         /\ entity[d].status = "succeeded"
                         /\ entity[d].versions \subseteq ctx
    BY DEF Turns, History
  <2>3. ctx \subseteq Docs
    BY <1>1 DEF ReaderRecords
  <2>4. fed \in Texts
    <3>1. \A d \in turns : entity[d].text \in Texts
      BY <2>2 DEF IInv, ReadingTypeOK, EntityRecords
    <3> QED
      BY <3>1 DEF Texts
  <2>5. turns \cap mixed = {} => fed \subseteq ctx
    <3> SUFFICES ASSUME turns \cap mixed = {}, NEW d \in turns
                 PROVE  entity[d].text \subseteq ctx
      OBVIOUS
    <3>1. Sound(entity[d], reader[d], d \in mixed) /\ d \notin mixed
      BY <2>2 DEF IInv
    <3> QED
      BY <2>2, <3>1 DEF Sound, Made
  <2>6. entity[e].kind = "summary" => fed = {}
    OBVIOUS
  <2>7. (turns \cap mixed = {}) \in BOOLEAN
    OBVIOUS
  <2> HIDE DEF ctx, fed, turns
  <2>8. /\ en \in EntityRecords
        /\ en.versions = ctx /\ en.kind = entity[e].kind
        /\ en.attempt = entity[e].attempt /\ en.status = entity[e].status
    BY <1>1, <2>3 DEF EntityRecords
  <2>9. /\ r.pc = "generate" /\ r.versions = ctx
        /\ r.prompt = ctx \cup fed /\ r.attempt = reader[e].attempt
        /\ r.pure <=> turns \cap mixed = {}
    BY <1>1 DEF ReaderRecords
  <2>10. r \in ReaderRecords
    <3>1. ctx \cup fed \in Texts
      BY <2>3, <2>4 DEF Texts
    <3> QED
      BY <1>1, <2>3, <2>7, <3>1 DEF ReaderRecords
  <2>11. entity[e].kind /= "none" /\ entity[e].status /= "succeeded"
         /\ reader[e].attempt <= entity[e].attempt
    BY <1>1 DEF Sound
  <2>12. r.pure => Made(r.prompt, r.versions, en.kind)
    BY <2>5, <2>6, <2>8, <2>9 DEF Made
  <2> HIDE DEF en, r
  <2>13. /\ entity' \in [Entities -> EntityRecords] /\ entity'[e] = en
         /\ reader' \in [Entities -> ReaderRecords] /\ reader'[e] = r
    BY <2>1, <2>8, <2>10 DEF IInv, ReadingTypeOK
  <2>14. Sound(entity'[e], reader'[e], e \in mixed')
    BY <2>8, <2>9, <2>11, <2>12, <2>13 DEF Sound
  <2>15. OnlyAt(e)
    BY <1>1, <2>1 DEF OnlyAt, IInv, ReadingTypeOK
  <2> QED
    BY <1>1, <2>13, <2>14, <2>15, OneMoves DEF IInv, ReadingTypeOK
<1> QED
  BY <1>2, <1>3

\* Generate: a replay marks the entity; anything else keeps the prompt.
LEMMA GenerateStep ==
    ASSUME IInv, NEW e \in Entities, Generate(e)
    PROVE  IInv'
<1>1. /\ entity[e] \in EntityRecords /\ reader[e] \in ReaderRecords
      /\ Sound(entity[e], reader[e], e \in mixed)
      /\ material' = material
      /\ reader[e].pc = "generate"
  BY DEF IInv, ReadingTypeOK, Generate
<1>2. CASE UNCHANGED output /\ UNCHANGED mixed
           /\ reader' = [reader EXCEPT ![e] = NoReader]
           /\ entity' = [entity EXCEPT ![e].job = "none", ![e].status =
                            IF @ = "canceled" THEN @ ELSE "failed"]
  BY <1>1, <1>2, GivenUp
<1>3. CASE /\ reader' = [reader EXCEPT ![e].pc = "store",
                 ![e].prompt = IF Replay(e) THEN output[e] ELSE @]
           /\ output' = IF Current(e)
                          THEN [output EXCEPT ![e] = reader'[e].prompt]
                          ELSE output
           /\ mixed' = IF Replay(e) \/ ~reader[e].pure
                         THEN mixed \cup {e} ELSE mixed
           /\ UNCHANGED entity
  <2> DEFINE r == [reader[e] EXCEPT !.pc = "store",
                      !.prompt = IF Replay(e) THEN output[e] ELSE @]
  <2>1. reader' = [reader EXCEPT ![e] = r]
    BY <1>1, <1>3 DEF IInv, ReadingTypeOK, ReaderRecords
  <2>2. output[e] \in Texts
    BY DEF IInv, ReadingTypeOK
  <2>3. /\ r \in ReaderRecords /\ r.pc = "store"
        /\ r.attempt = reader[e].attempt
        /\ ~Replay(e) => r.prompt = reader[e].prompt
    BY <1>1, <2>2 DEF ReaderRecords
  <2> HIDE DEF r
  <2>4. reader' \in [Entities -> ReaderRecords] /\ reader'[e] = r
    BY <2>1, <2>3 DEF IInv, ReadingTypeOK
  <2>5. r.prompt \in Texts
    BY <2>3 DEF ReaderRecords
  <2>6. output' \in [Entities -> Texts]
    BY <1>3, <2>4, <2>5 DEF IInv, ReadingTypeOK
  <2>7. mixed' \subseteq Entities
    BY <1>3 DEF IInv, ReadingTypeOK
  <2>8. e \notin mixed' => ~Replay(e) /\ reader[e].pure /\ e \notin mixed
    BY <1>3
  <2>9. Sound(entity'[e], reader'[e], e \in mixed')
    BY <1>1, <1>3, <2>3, <2>4, <2>8 DEF Sound, Made
  <2>10. OnlyAt(e)
    BY <1>1, <1>3, <2>1 DEF OnlyAt, IInv, ReadingTypeOK
  <2> QED
    BY <1>3, <2>4, <2>6, <2>7, <2>9, <2>10, OneMoves DEF IInv, ReadingTypeOK
<1> QED
  BY <1>2, <1>3 DEF Generate

\* Store: what succeeds under the current key was made from what is recorded.
LEMMA StoreStep ==
    ASSUME IInv, NEW e \in Entities, Store(e)
    PROVE  IInv'
<1>1. /\ entity[e] \in EntityRecords /\ reader[e] \in ReaderRecords
      /\ Sound(entity[e], reader[e], e \in mixed)
      /\ material' = material
      /\ reader[e].pc = "store"
      /\ output' = [output EXCEPT ![e] = None]
      /\ mixed' = IF Current(e) THEN mixed ELSE mixed \cup {e}
      /\ reader' = [reader EXCEPT ![e] = NoReader]
  BY DEF IInv, ReadingTypeOK, Store
<1>2. PICK found \in BOOLEAN :
          entity' = [entity EXCEPT ![e].status = "succeeded",
                ![e].job = "none", ![e].answered = found,
                ![e].text = reader[e].prompt]
  BY DEF Store
<1> DEFINE en == [entity[e] EXCEPT !.status = "succeeded", !.job = "none",
                     !.answered = found, !.text = reader[e].prompt]
<1>3. entity' = [entity EXCEPT ![e] = en]
  BY <1>1, <1>2 DEF IInv, ReadingTypeOK, EntityRecords
<1>4. /\ en \in EntityRecords
      /\ en.kind = entity[e].kind /\ en.job = "none"
      /\ en.text = reader[e].prompt /\ en.versions = entity[e].versions
  BY <1>1 DEF EntityRecords, ReaderRecords
<1> HIDE DEF en
<1>5. /\ entity' \in [Entities -> EntityRecords] /\ entity'[e] = en
      /\ reader' \in [Entities -> ReaderRecords] /\ reader'[e].pc = "idle"
      /\ output' \in [Entities -> Texts]
      /\ mixed' \subseteq Entities
  BY <1>1, <1>3, <1>4, Blank DEF IInv, ReadingTypeOK, NoReader
<1>6. e \notin mixed' => e \notin mixed /\ reader[e].attempt = entity[e].attempt
  BY <1>1 DEF Current
<1>7. entity[e].kind /= "none"
  BY <1>1 DEF Sound
<1>8. e \notin mixed' => Made(en.text, en.versions, en.kind)
  BY <1>1, <1>4, <1>6 DEF Sound
<1>9. Sound(entity'[e], reader'[e], e \in mixed')
  BY <1>4, <1>5, <1>7, <1>8 DEF Sound
<1>10. OnlyAt(e)
  BY <1>1, <1>3 DEF OnlyAt, IInv, ReadingTypeOK
<1> QED
  BY <1>5, <1>9, <1>10, OneMoves DEF IInv, ReadingTypeOK

\* Crash: the reader is gone, the entity stays as it is.
LEMMA CrashStep ==
    ASSUME IInv, NEW e \in Entities, Crash(e)
    PROVE  IInv'
<1>1. /\ Sound(entity[e], reader[e], e \in mixed)
      /\ UNCHANGED <<material, entity, output, mixed>>
      /\ reader' = [reader EXCEPT ![e] = NoReader]
  BY DEF IInv, ReadingTypeOK, Crash
<1>2. reader' \in [Entities -> ReaderRecords] /\ reader'[e].pc = "idle"
  BY <1>1, Blank DEF IInv, ReadingTypeOK, NoReader
<1>3. Sound(entity'[e], reader'[e], e \in mixed')
  BY <1>1, <1>2 DEF Sound, Made
<1>4. OnlyAt(e)
  BY <1>1 DEF OnlyAt, IInv, ReadingTypeOK
<1> QED
  BY <1>1, <1>2, <1>3, <1>4, OneMoves DEF IInv, ReadingTypeOK

-----------------------------------------------------------------------------

\* IInv holds in every reachable state.
THEOREM ReadingInvariance == ReadingSpec => []IInv
<1>1. ReadingInit => IInv
  BY Blank DEF ReadingInit, IInv, ReadingTypeOK, Sound, NoEntity, NoReader
<1>2. IInv /\ [ReadingNext]_readingVars => IInv'
  <2> SUFFICES ASSUME IInv, [ReadingNext]_readingVars PROVE IInv'
    OBVIOUS
  <2>1. CASE UNCHANGED readingVars
    BY <2>1 DEF readingVars, IInv, ReadingTypeOK, Sound, Made
  <2>2. CASE ReadingNext
    BY <2>2, MaterialStep, CreateStep, CancelStep, ResendStep, BeginStep,
       AssembleStep, GenerateStep, StoreStep, CrashStep DEF ReadingNext
  <2> QED
    BY <2>1, <2>2
<1> QED
  BY <1>1, <1>2, PTL DEF ReadingSpec

(***************************************************************************)
(* The rows, runs and outputs of Reading have their types: in particular   *)
(* an entity records, and a run reads, sources of the topic only.          *)
(***************************************************************************)
THEOREM ReadingTypeCorrect == ReadingSpec => []ReadingTypeOK
<1>1. IInv => ReadingTypeOK
  BY DEF IInv
<1> QED
  BY <1>1, ReadingInvariance, PTL

(***************************************************************************)
(* build_context() and answer_history(): no prompt holds text of a source  *)
(* outside its context, as long as what was fed back is not mixed.         *)
(***************************************************************************)
THEOREM PromptIsolatedHolds == ReadingSpec => []PromptIsolated
<1>1. IInv => PromptIsolated
  BY DEF IInv, Sound, Made, PromptIsolated
<1> QED
  BY <1>1, ReadingInvariance, PTL

(***************************************************************************)
(* _reusable(): a summary handed out again instead of a new one was made   *)
(* from exactly the wanted sources.                                        *)
(***************************************************************************)
THEOREM ReuseIsExactHolds == ReadingSpec => []ReuseIsExact
<1>1. IInv => ReuseIsExact
  BY DEF IInv, Sound, Made, ReuseIsExact, Reusable
<1> QED
  BY <1>1, ReadingInvariance, PTL

-----------------------------------------------------------------------------
(* The failover over keys and proxies.                                     *)

\* What ends the call, and what ends the use of a key.
Final == {"rate", "bad"}
Refusal == {"auth", "quota"}
Outcomes == {"connection"} \cup Refusal \cup Final

\* Every client before n was tried, or an earlier one with its key refused it.
CoveredTo(n) ==
    \A c \in 0..(n - 1) :
        \E i \in 1..Len(tried) :
            \/ tried[i][1] = c
            \/ KeyOf(tried[i][1]) = KeyOf(c) /\ tried[i][2] \in Refusal

\* One client before another: not sent again, and not with a refused key.
Before(t, c) ==
    /\ t[1] < c /\ t[2] \notin Final
    /\ t[2] \in Refusal => NextKey(t[1]) <= c

FailoverInv ==
    /\ client \in Nat
    /\ tried \in Seq(Nat \X Outcomes)
    /\ \A i, j \in 1..Len(tried) : i < j => Before(tried[i], tried[j][1])
    /\ task /= "failed" =>
          /\ client < Clients
          /\ \A i \in 1..Len(tried) : Before(tried[i], client)
          /\ CoveredTo(client)
    /\ task = "failed" =>
          /\ Len(tried) > 0
          /\ Last(tried)[2] \in Final \/ CoveredTo(Clients)

\* There is a client, and the clients of a key are a run of ProxyCount ones.
LEMMA KeyRuns ==
    /\ ProxyCount \in Nat /\ KeyCount \in Nat /\ ProxyCount > 0
    /\ Clients \in Nat /\ Clients > 0
    /\ \A c \in Nat : /\ KeyOf(c) \in Nat
                      /\ KeyOf(c) * ProxyCount \in Nat
                      /\ KeyOf(c) * ProxyCount <= c
                      /\ c < KeyOf(c) * ProxyCount + ProxyCount
                      /\ NextKey(c) = KeyOf(c) * ProxyCount + ProxyCount
<1>1. ProxyCount \in Nat \ {0} /\ KeyCount \in Nat \ {0}
  BY ReplyingAssumption
<1>2. Clients \in Nat /\ Clients > 0
  BY <1>1 DEF Clients
<1>3. ASSUME NEW c \in Nat
      PROVE  /\ KeyOf(c) \in Nat
             /\ KeyOf(c) * ProxyCount \in Nat
             /\ KeyOf(c) * ProxyCount <= c
             /\ c < (KeyOf(c) + 1) * ProxyCount
             /\ (KeyOf(c) + 1) * ProxyCount = KeyOf(c) * ProxyCount + ProxyCount
  <2>1. KeyOf(c) \in Nat
    BY <1>1 DEF KeyOf
  <2>2. KeyOf(c) * ProxyCount <= c
    BY <1>1 DEF KeyOf
  <2>3. c < (KeyOf(c) + 1) * ProxyCount
    BY <1>1 DEF KeyOf
  <2>4. ASSUME NEW k \in Nat
        PROVE  k * ProxyCount \in Nat /\ (k + 1) * ProxyCount = k * ProxyCount + ProxyCount
    BY <1>1
  <2> QED
    BY <2>1, <2>2, <2>3, <2>4
<1>4. \A c \in Nat : NextKey(c) = (KeyOf(c) + 1) * ProxyCount
  BY DEF NextKey, KeyOf
<1> QED
  BY <1>1, <1>2, <1>3, <1>4

\* Keys are ordered as their clients.
LEMMA KeysOrdered ==
    ASSUME NEW k \in Nat, NEW l \in Nat, k < l
    PROVE  /\ k * ProxyCount + ProxyCount <= l * ProxyCount
           /\ k * ProxyCount \in Nat /\ l * ProxyCount \in Nat
<1>1. ProxyCount \in Nat \ {0}
  BY ReplyingAssumption
<1>2. (k + 1) * ProxyCount <= l * ProxyCount
  BY <1>1
<1>3. (k + 1) * ProxyCount = k * ProxyCount + ProxyCount
  BY <1>1
<1>4. k * ProxyCount \in Nat /\ l * ProxyCount \in Nat
  BY <1>1
<1> QED
  BY <1>2, <1>3, <1>4

\* A client among those of a key has that key.
LEMMA KeyIs ==
    ASSUME NEW c \in Nat, NEW k \in Nat,
           k * ProxyCount <= c, c < k * ProxyCount + ProxyCount
    PROVE  KeyOf(c) = k
<1>1. PICK l \in Nat : l = KeyOf(c)
  BY KeyRuns
<1>2. PICK a \in Nat : a = k * ProxyCount
  BY ReplyingAssumption
<1>3. PICK b \in Nat : b = l * ProxyCount
  BY ReplyingAssumption
<1>4. /\ ProxyCount \in Nat
      /\ a <= c /\ c < a + ProxyCount /\ b <= c /\ c < b + ProxyCount
  BY <1>1, <1>2, <1>3, KeyRuns
<1>5. k < l => a + ProxyCount <= b
  BY <1>2, <1>3, KeysOrdered
<1>6. l < k => b + ProxyCount <= a
  BY <1>2, <1>3, KeysOrdered
<1> QED
  BY <1>1, <1>4, <1>5, <1>6

\* A refused key is left behind by the clients that follow.
LEMMA KeyLeft ==
    ASSUME NEW b \in Nat, NEW c \in Nat, NextKey(b) <= c
    PROVE  KeyOf(b) /= KeyOf(c)
<1> SUFFICES ASSUME KeyOf(b) = KeyOf(c) PROVE FALSE
  OBVIOUS
<1> QED
  BY KeyRuns

\* The next client of the failover: everything before it has been dealt with.
LEMMA FailureCovers ==
    ASSUME FailoverInv, task /= "failed",
           NEW outcome \in {"connection"} \cup Refusal,
           NEW new, new = Append(tried, <<client, outcome>>),
           NEW next, next = After(client, outcome)
    PROVE  /\ next \in Nat /\ client < next
           /\ Before(<<client, outcome>>, next)
           /\ \A c \in 0..(next - 1) :
                 \E i \in 1..Len(new) :
                     \/ new[i][1] = c
                     \/ KeyOf(new[i][1]) = KeyOf(c) /\ new[i][2] \in Refusal
<1>0. /\ client \in Nat /\ tried \in Seq(Nat \X Outcomes) /\ CoveredTo(client)
      /\ <<client, outcome>> \in Nat \X Outcomes
  BY DEF FailoverInv, Outcomes
<1>1. /\ Len(new) = Len(tried) + 1 /\ Len(tried) \in Nat
      /\ \A i \in 1..Len(tried) : new[i] = tried[i]
      /\ new[Len(tried) + 1] = <<client, outcome>>
  BY <1>0
<1>2. /\ outcome = "connection" => next = client + 1
      /\ outcome \in Refusal => next = NextKey(client)
  BY DEF After, Refusal
<1>3. next \in Nat /\ client < next
  <2>1. PICK p \in Nat : /\ p = KeyOf(client) * ProxyCount
                         /\ NextKey(client) = p + ProxyCount
                         /\ client < p + ProxyCount
    BY <1>0, KeyRuns
  <2>2. ProxyCount \in Nat
    BY KeyRuns
  <2>3. CASE outcome = "connection"
    BY <2>3, <1>0, <1>2
  <2>4. CASE outcome \in Refusal
    BY <2>1, <2>2, <2>4, <1>2
  <2> QED
    BY <2>3, <2>4
<1>4. Before(<<client, outcome>>, next)
  BY <1>2, <1>3 DEF Before, Final, Refusal
<1>5. ASSUME NEW c \in 0..(next - 1)
      PROVE  \E i \in 1..Len(new) :
                 \/ new[i][1] = c
                 \/ KeyOf(new[i][1]) = KeyOf(c) /\ new[i][2] \in Refusal
  <2>1. CASE c < client
    <3>1. PICK i \in 1..Len(tried) :
             \/ tried[i][1] = c
             \/ KeyOf(tried[i][1]) = KeyOf(c) /\ tried[i][2] \in Refusal
      BY <2>1, <1>0, <1>3 DEF CoveredTo
    <3>2. i \in 1..Len(new) /\ new[i] = tried[i]
      BY <1>1
    <3> QED
      BY <3>1, <3>2
  <2>2. CASE c = client
    BY <2>2, <1>1
  <2>3. CASE c > client
    <3>1. outcome \in Refusal /\ next = NextKey(client)
      BY <2>3, <1>0, <1>2
    <3>2. KeyOf(c) = KeyOf(client)
      <4>1. PICK p \in Nat : /\ p = KeyOf(client) * ProxyCount
                             /\ NextKey(client) = p + ProxyCount
                             /\ p <= client
        BY <1>0, KeyRuns
      <4>2. ProxyCount \in Nat /\ c \in Nat /\ KeyOf(client) \in Nat
        BY <1>0, <1>3, KeyRuns
      <4>3. p <= c /\ c < p + ProxyCount
        <5>1. PICK q \in Nat, a \in Nat, e \in Nat :
                  q = ProxyCount /\ a = client /\ e = next
          BY <4>2, <1>0, <1>3
        <5>2. e = p + q /\ p <= a
          BY <4>1, <3>1, <5>1
        <5>3. c \in 0..(e - 1) /\ c > a
          BY <2>3, <5>1
        <5>4. p <= c /\ c < p + q
          BY <5>2, <5>3
        <5> QED
          BY <5>1, <5>4
      <4> QED
        BY <4>1, <4>2, <4>3, KeyIs
    <3> QED
      BY <3>1, <3>2, <1>1
  <2> QED
    BY <2>1, <2>2, <2>3, <1>0, <1>3
<1> QED
  BY <1>3, <1>4, <1>5

\* A failed call keeps the invariant.
LEMMA CallFailsKeeps ==
    ASSUME FailoverInv, NEW outcome \in Outcomes, CallFails(outcome)
    PROVE  FailoverInv'
<1> DEFINE next == After(client, outcome)
           t == <<client, outcome>>
<1>0. /\ client \in Nat /\ tried \in Seq(Nat \X Outcomes)
      /\ task /= "failed" /\ t \in Nat \X Outcomes
      /\ client < Clients
      /\ \A i, j \in 1..Len(tried) : i < j => Before(tried[i], tried[j][1])
      /\ \A i \in 1..Len(tried) : Before(tried[i], client)
  BY DEF FailoverInv, CallFails, Calling
<1>1. /\ tried' = Append(tried, t)
      /\ client' = IF next = -1 THEN client ELSE next
      /\ task' = IF next = -1 \/ next >= Clients THEN "failed" ELSE task
  BY DEF CallFails
<1>2. /\ tried' \in Seq(Nat \X Outcomes)
      /\ Len(tried') = Len(tried) + 1 /\ Len(tried) \in Nat
      /\ \A i \in 1..Len(tried) : tried'[i] = tried[i]
      /\ tried'[Len(tried) + 1] = t
      /\ Last(tried') = t
  BY <1>0, <1>1 DEF Last
<1>3. \A i \in 1..Len(tried') : i \in 1..Len(tried) \/ i = Len(tried) + 1
  BY <1>2
<1>4. ASSUME NEW i \in 1..Len(tried'), NEW j \in 1..Len(tried'), i < j
      PROVE  Before(tried'[i], tried'[j][1])
  <2>1. i \in 1..Len(tried)
    BY <1>2, <1>4
  <2>2. CASE j \in 1..Len(tried)
    BY <2>1, <2>2, <1>0, <1>2, <1>4
  <2>3. CASE j = Len(tried) + 1
    <3>1. tried'[j][1] = client
      BY <2>3, <1>2
    <3> QED
      BY <3>1, <2>1, <1>0, <1>2
  <2> QED
    BY <2>2, <2>3, <1>3
<1>5. CASE outcome \in Final
  <2>1. next = -1
    BY <1>5 DEF After, Final
  <2>2. client' = client /\ task' = "failed"
    BY <2>1, <1>1
  <2>3. Last(tried')[2] \in Final /\ Len(tried') > 0
    BY <1>2, <1>5
  <2> HIDE DEF t, next
  <2> QED
    BY <1>0, <1>2, <1>4, <2>2, <2>3 DEF FailoverInv
<1>6. CASE outcome \in {"connection"} \cup Refusal
  <2>1. PICK n \in Nat :
           /\ n = next /\ client < n
           /\ Before(t, n)
           /\ \A c \in 0..(n - 1) :
                 \E i \in 1..Len(tried') :
                     \/ tried'[i][1] = c
                     \/ /\ KeyOf(tried'[i][1]) = KeyOf(c)
                        /\ tried'[i][2] \in Refusal
    <3>1. PICK new : new = tried'
      OBVIOUS
    <3>2. PICK n : n = next
      OBVIOUS
    <3>3. /\ n \in Nat /\ client < n
          /\ Before(<<client, outcome>>, n)
          /\ \A c \in 0..(n - 1) :
                \E i \in 1..Len(new) :
                    \/ new[i][1] = c
                    \/ KeyOf(new[i][1]) = KeyOf(c) /\ new[i][2] \in Refusal
      <4>1. new = Append(tried, <<client, outcome>>)
        BY <3>1, <1>1
      <4>2. n = After(client, outcome)
        BY <3>2
      <4> HIDE DEF t, next
      <4> QED
        BY <4>1, <4>2, <1>0, <1>6, FailureCovers
    <3>4. Before(t, n)
      BY <3>3
    <3>5. \A c \in 0..(n - 1) :
              \E i \in 1..Len(tried') :
                  \/ tried'[i][1] = c
                  \/ /\ KeyOf(tried'[i][1]) = KeyOf(c)
                     /\ tried'[i][2] \in Refusal
      BY <3>1, <3>3
    <3>6. n \in Nat /\ n = next /\ client < n
      BY <3>2, <3>3
    <3> HIDE DEF next, t
    <3> QED
      BY <3>4, <3>5, <3>6
  <2> HIDE DEF next
  <2>2. /\ client' = n
        /\ task' = IF n >= Clients THEN "failed" ELSE task
    BY <2>1, <1>1
  <2>3. CoveredTo(n)'
    BY <2>1 DEF CoveredTo
  <2>4. ASSUME NEW i \in 1..Len(tried') PROVE Before(tried'[i], n)
    <3>1. CASE i = Len(tried) + 1
      BY <3>1, <1>2, <2>1
    <3>2. CASE i \in 1..Len(tried)
      <4>1. Before(tried[i], client) /\ tried[i][1] \in Nat
        BY <3>2, <1>0
      <4>2. NextKey(tried[i][1]) \in Nat
        <5>1. PICK b \in Nat : b = tried[i][1]
          BY <4>1
        <5>2. PICK p \in Nat : p = KeyOf(b) * ProxyCount
          BY KeyRuns
        <5>3. NextKey(b) = p + ProxyCount /\ ProxyCount \in Nat
          BY <5>2, KeyRuns
        <5> QED
          BY <5>1, <5>3
      <4>3. Before(tried[i], n)
        BY <4>1, <4>2, <2>1, <1>0 DEF Before
      <4> QED
        BY <4>3, <3>2, <1>2
    <3> QED
      BY <3>1, <3>2, <1>3
  <2>5. CASE n >= Clients
    <3>1. 0..(Clients - 1) \subseteq 0..(n - 1)
      BY <2>5, KeyRuns
    <3>2. CoveredTo(Clients)'
      BY <2>3, <3>1 DEF CoveredTo, Clients
    <3>3. task' = "failed" /\ Len(tried') > 0
      BY <2>5, <2>2, <1>2
    <3> HIDE DEF t
    <3> QED
      BY <3>2, <3>3, <2>2, <1>2, <1>4 DEF FailoverInv
  <2>6. CASE ~(n >= Clients)
    <3>1. task' = task /\ client' < Clients
      BY <2>6, <2>2, KeyRuns
    <3>2. CoveredTo(client)'
      BY <2>3, <2>2 DEF CoveredTo
    <3> HIDE DEF t
    <3> QED
      BY <3>1, <3>2, <2>2, <2>4, <1>0, <1>2, <1>4 DEF FailoverInv, Clients
  <2> QED
    BY <2>5, <2>6
<1> QED
  BY <1>5, <1>6 DEF Outcomes

\* A call begins with the first client.
LEMMA FreshCall ==
    client = 0 /\ tried = <<>> /\ task /= "failed" => FailoverInv
<1> SUFFICES ASSUME client = 0, tried = <<>>, task /= "failed"
             PROVE  FailoverInv
  OBVIOUS
<1>1. tried \in Seq(Nat \X Outcomes) /\ Len(tried) = 0
  OBVIOUS
<1>2. CoveredTo(0)
  BY DEF CoveredTo
<1> QED
  BY <1>1, <1>2, KeyRuns DEF FailoverInv

\* Every step of a run keeps the failover's invariant.
LEMMA FailoverInvariance == ReplyingSpec => []FailoverInv
<1>1. ReplyingInit => FailoverInv
  BY FreshCall DEF ReplyingInit
<1>2. FailoverInv /\ [ReplyingNext]_replyingVars => FailoverInv'
  <2> SUFFICES ASSUME FailoverInv, [ReplyingNext]_replyingVars PROVE FailoverInv'
    OBVIOUS
  <2>1. CASE UNCHANGED replyingVars
    <3>1. client' = client /\ tried' = tried /\ task' = task
      BY <2>1 DEF replyingVars
    <3> QED
      BY <3>1 DEF FailoverInv, CoveredTo
  <2>2. ASSUME NEW o \in {"connection", "auth", "quota", "rate", "bad"},
               CallFails(o)
        PROVE  FailoverInv'
    <3>1. o \in Outcomes
      BY DEF Outcomes, Refusal, Final
    <3> QED
      BY <3>1, <2>2, CallFailsKeeps
  <2>3. CASE ReceiveAnswer \/ CheckSupport \/ ReadPart \/ OnePart \/ Reduce
    <3>1. client' = 0 /\ tried' = <<>> /\ task' /= "failed"
      BY <2>3 DEF ReceiveAnswer, CheckSupport, ReadPart, OnePart, Reduce, Answered
    <3>2. (client = 0 /\ tried = <<>> /\ task /= "failed")' => FailoverInv'
      BY FreshCall, PTL
    <3> QED
      BY <3>1, <3>2
  <2>4. CASE ShowPrice \/ BuildContext
    <3>1. /\ client' = client /\ tried' = tried
          /\ task /= "failed" /\ task' /= "failed"
      BY <2>4 DEF ShowPrice, BuildContext
    <3> QED
      BY <3>1 DEF FailoverInv, CoveredTo
  <2> QED
    BY <2>1, <2>2, <2>3, <2>4 DEF ReplyingNext
<1> QED
  BY <1>1, <1>2, PTL DEF ReplyingSpec

\* The clients of a key that was not refused were all tried when the call
\* gave up.
LEMMA AllProxies ==
    ASSUME FailoverInv, CoveredTo(Clients), NEW k \in 0..(KeyCount - 1),
           \A i \in 1..Len(tried) : KeyOf(tried[i][1]) = k =>
               tried[i][2] \notin Refusal
    PROVE  Cardinality({i \in 1..Len(tried) : KeyOf(tried[i][1]) = k})
               = ProxyCount
<1> DEFINE At == {i \in 1..Len(tried) : KeyOf(tried[i][1]) = k}
           first == k * ProxyCount
           Mine == first..(first + ProxyCount - 1)
           f == [i \in At |-> tried[i][1]]
<1>1. /\ k \in Nat /\ KeyCount \in Nat /\ k < KeyCount
      /\ ProxyCount \in Nat /\ ProxyCount > 0
  BY KeyRuns
<1>2. first \in Nat /\ first + ProxyCount <= Clients
  BY <1>1, KeysOrdered DEF Clients
<1>3. ASSUME NEW i \in 1..Len(tried)
      PROVE  /\ tried[i][1] \in Nat
             /\ \A j \in 1..Len(tried) : i < j => tried[i][1] < tried[j][1]
  <2>1. tried \in Seq(Nat \X Outcomes)
    BY DEF FailoverInv
  <2>2. tried[i] \in Nat \X Outcomes
    BY <2>1
  <2>3. ASSUME NEW j \in 1..Len(tried), i < j PROVE tried[i][1] < tried[j][1]
    <3>1. Before(tried[i], tried[j][1])
      BY <2>3 DEF FailoverInv
    <3> QED
      BY <3>1 DEF Before
  <2> QED
    BY <2>2, <2>3
<1>4. f \in [At -> Mine]
  <2> SUFFICES ASSUME NEW i \in At PROVE tried[i][1] \in Mine
    OBVIOUS
  <2>1. KeyOf(tried[i][1]) = k /\ tried[i][1] \in Nat
    BY <1>3
  <2>2. first <= tried[i][1] /\ tried[i][1] < first + ProxyCount
    BY <2>1, KeyRuns
  <2>3. PICK p \in Nat : p = first
    BY <1>2
  <2> HIDE DEF first
  <2> QED
    BY <2>1, <2>2, <2>3, <1>1
<1>5. ASSUME NEW i \in At, NEW j \in At, tried[i][1] = tried[j][1] PROVE i = j
  <2>1. i \in Nat /\ j \in Nat /\ tried[i][1] \in Nat /\ tried[j][1] \in Nat
    BY <1>3
  <2>2. ~(i < j) /\ ~(j < i)
    BY <2>1, <1>3, <1>5
  <2> QED
    BY <2>1, <2>2
<1>6. ASSUME NEW c \in Mine PROVE \E i \in At : tried[i][1] = c
  <2>0. first \in Nat /\ Clients \in Nat /\ ProxyCount \in Nat
    BY <1>2, KeyRuns
  <2>1. c \in 0..(Clients - 1) /\ first <= c /\ c < first + ProxyCount
    <3> HIDE DEF first
    <3> QED
      BY <2>0, <1>2
  <2>2. c \in Nat /\ first <= c /\ c < first + ProxyCount
    BY <2>0, <2>1
  <2>3. KeyOf(c) = k
    BY <2>2, <1>1, KeyIs
  <2>4. PICK i \in 1..Len(tried) :
           \/ tried[i][1] = c
           \/ KeyOf(tried[i][1]) = KeyOf(c) /\ tried[i][2] \in Refusal
    BY <2>1 DEF CoveredTo
  <2>5. tried[i][1] = c
    BY <2>3, <2>4
  <2> QED
    BY <2>3, <2>5
<1>7. f \in Injection(At, Mine)
  <2> HIDE DEF Mine, At
  <2> QED
    BY <1>4, <1>5 DEF Injection, IsInjective
<1>8. f \in Surjection(At, Mine)
  <2> HIDE DEF Mine, At
  <2> QED
    BY <1>4, <1>6 DEF Surjection
<1>9. IsFiniteSet(Mine) /\ Cardinality(Mine) = ProxyCount
  <2>1. first \in Int /\ first + ProxyCount - 1 \in Int
    BY <1>1, <1>2
  <2>2. /\ IsFiniteSet(first..(first + ProxyCount - 1))
        /\ Cardinality(first..(first + ProxyCount - 1))
              = IF first > first + ProxyCount - 1 THEN 0
                ELSE (first + ProxyCount - 1) - first + 1
    BY <2>1, FS_Interval
  <2> HIDE DEF first
  <2> QED
    BY <2>2, <1>1, <1>2
<1> HIDE DEF At, Mine, f
<1>10. Cardinality(At) = Cardinality(Mine)
  BY <1>7, <1>8, <1>9, FS_Injection
<1> QED
  BY <1>9, <1>10 DEF At

\* StaysIn one call no client is used twice and no proxy of a refused key, no
\* other error of OpenAI is sent again, and the call gives up only when every
\* key was refused or had all its proxies out of reach, for any number of
\* keys and proxies (OpenAILLMClient.complete_json, domain/llm.py).
THEOREM FailoverCompleteHolds == ReplyingSpec => []FailoverComplete
<1>1. FailoverInv => FailoverComplete
  <2> SUFFICES ASSUME FailoverInv PROVE FailoverComplete
    OBVIOUS
  <2> DEFINE At(k) == {i \in 1..Len(tried) : KeyOf(tried[i][1]) = k}
             refused(k) == {i \in At(k) : tried[i][2] \in {"auth", "quota"}}
  <2>1. ASSUME NEW i \in 1..Len(tried), NEW j \in 1..Len(tried), i < j
        PROVE  /\ tried[i][1] < tried[j][1]
               /\ tried[i][2] \notin {"rate", "bad"}
               /\ i \notin refused(KeyOf(tried[j][1]))
    <3>1. Before(tried[i], tried[j][1])
      BY <2>1 DEF FailoverInv
    <3>2. tried[i][1] \in Nat /\ tried[j][1] \in Nat
      BY DEF FailoverInv
    <3>3. tried[i][2] \in Refusal => KeyOf(tried[i][1]) /= KeyOf(tried[j][1])
      BY <3>1, <3>2, KeyLeft DEF Before
    <3> QED
      BY <3>1, <3>3 DEF Before, Final, Refusal
  <2>2. ASSUME task = "failed"
        PROVE  \/ Last(tried)[2] \in {"rate", "bad"}
               \/ \A k \in 0..(KeyCount - 1) :
                     refused(k) /= {} \/ Cardinality(At(k)) = ProxyCount
    <3>1. CASE Last(tried)[2] \in Final
      BY <3>1 DEF Final
    <3>2. CASE CoveredTo(Clients)
      <4> SUFFICES ASSUME NEW k \in 0..(KeyCount - 1), refused(k) = {}
                   PROVE  Cardinality(At(k)) = ProxyCount
        OBVIOUS
      <4>1. \A i \in 1..Len(tried) : KeyOf(tried[i][1]) = k =>
                tried[i][2] \notin Refusal
        BY DEF Refusal
      <4> QED
        BY <4>1, <3>2, AllProxies
    <3> QED
      BY <3>1, <3>2, <2>2 DEF FailoverInv
  <2> QED
    BY <2>1, <2>2 DEF FailoverComplete
<1> QED
  BY <1>1, FailoverInvariance, PTL

-----------------------------------------------------------------------------
(* Sequences.                                                              *)

\* A function on 1..n is a sequence of length n ...
LEMMA FunctionIsSeq ==
    ASSUME NEW n \in Nat, NEW E, NEW s \in [1..n -> E]
    PROVE  s \in Seq(E) /\ Len(s) = n
OBVIOUS

\* ... and the other way round.
LEMMA SeqIsFunction ==
    ASSUME NEW E, NEW s \in Seq(E)
    PROVE  Len(s) \in Nat /\ s \in [1..Len(s) -> E]
OBVIOUS

\* Appending makes a sequence that is not empty.
LEMMA AppendIn ==
    ASSUME NEW S, NEW s, s \in Seq(S), NEW x, x \in S
    PROVE  Append(s, x) \in Seq(S) /\ Append(s, x) /= <<>>
<1>1. Append(s, x) \in Seq(S)
  OBVIOUS
<1>2. Len(Append(s, x)) = Len(s) + 1 /\ Len(s) \in Nat
  OBVIOUS
<1>3. Len(<<>>) = 0
  OBVIOUS
<1>4. Append(s, x) /= <<>>
  BY <1>2, <1>3
<1> QED
  BY <1>1, <1>4

\* n sequences of members of E.
Rows(seqs, n, E) == seqs \in [1..n -> Seq(E)]

\* h[k] is what the first k sequences make, put end to end.
Joins(h, seqs, E) ==
    /\ \A k \in 0..Len(seqs) : h[k] \in Seq(E)
    /\ h[0] = <<>> /\ h[Len(seqs)] = FlattenSeq(seqs)
    /\ \A k \in 1..Len(seqs) : h[k] = h[k - 1] \o seqs[k]

\* FlattenSeq puts the sequences end to end.
LEMMA FlattenSteps ==
    ASSUME NEW n \in Nat, NEW E, NEW seqs, Rows(seqs, n, E)
    PROVE  \E h : Joins(h, seqs, E)
<1> seqs \in [1..n -> Seq(E)]
  BY DEF Rows
<1> DEFINE Folds(f) == f = [i \in 1..n |->
                              IF i = 1 THEN seqs[i] ELSE f[i - 1] \o seqs[i]]
           step == [p \in Seq(E) \X Nat |-> IF p[2] + 1 \in 1..n
                        THEN p[1] \o seqs[p[2] + 1] ELSE p[1]]
<1>1. Len(seqs) = n
  BY FunctionIsSeq
<1>2. step \in [Seq(E) \X Nat -> Seq(E)]
  <2> SUFFICES ASSUME NEW a \in Seq(E), NEW k \in Nat
               PROVE  (IF k + 1 \in 1..n THEN a \o seqs[k + 1] ELSE a) \in Seq(E)
    OBVIOUS
  <2>1. CASE k + 1 \in 1..n
    <3>1. PICK b \in Seq(E) : b = seqs[k + 1]
      BY <2>1
    <3>2. a \o b \in Seq(E)
      OBVIOUS
    <3> QED
      BY <2>1, <3>1, <3>2
  <2> QED
    BY <2>1
<1>3. PICK h \in [Nat -> Seq(E)] : Iterates(h, <<>>, step)
  <2>1. PICK A, empty : A = Seq(E) /\ empty = <<>>
    OBVIOUS
  <2>2. empty \in A /\ step \in [A \X Nat -> A]
    BY <1>2, <2>1
  <2> HIDE DEF step
  <2>3. \E h \in [Nat -> A] : Iterates(h, empty, step)
    BY <2>2, Iteration
  <2> QED
    BY <2>1, <2>3
<1>4. h[0] = <<>> /\ \A k \in 1..n : h[k] = h[k - 1] \o seqs[k]
  <2>1. h[0] = <<>>
    BY <1>3 DEF Iterates
  <2>2. ASSUME NEW k \in 1..n PROVE h[k] = h[k - 1] \o seqs[k]
    <3>1. PICK j \in Nat : j = k - 1 /\ j + 1 = k
      OBVIOUS
    <3>2. h[j + 1] = step[<<h[j], j>>]
      BY <1>3 DEF Iterates
    <3>3. h[j] \in Seq(E)
      OBVIOUS
    <3>4. step[<<h[j], j>>] = h[j] \o seqs[k]
      BY <3>1, <3>3
    <3> QED
      BY <3>1, <3>2, <3>4
  <2> QED
    BY <2>1, <2>2
<1> HIDE DEF step
<1>5. PICK f : f = [i \in 1..n |-> h[i]]
  OBVIOUS
<1>6. Folds(f)
  <2>1. ASSUME NEW i \in 1..n
        PROVE  f[i] = IF i = 1 THEN seqs[i] ELSE f[i - 1] \o seqs[i]
    <3>1. CASE i = 1
      <4>1. h[1] = <<>> \o seqs[1]
        <5>1. h[i] = h[i - 1] \o seqs[i]
          BY <1>4
        <5>2. i - 1 = 0
          BY <3>1
        <5>3. h[i] = h[0] \o seqs[i]
          BY <5>1, <5>2, Zenon
        <5>4. h[0] = <<>>
          BY <1>4
        <5> QED
          BY <3>1, <5>3, <5>4, Zenon
      <4>2. seqs[1] \in Seq(E)
        BY <3>1
      <4>3. <<>> \o seqs[1] = seqs[1]
        BY <4>2
      <4> QED
        BY <1>5, <3>1, <4>1, <4>3
    <3>2. CASE i /= 1
      <4>1. i - 1 \in 1..n
        BY <3>2
      <4> QED
        BY <1>4, <1>5, <3>2, <4>1
    <3> QED
      BY <3>1, <3>2
  <2> QED
    BY <1>5, <2>1
<1>7. ASSUME n = 0 PROVE FlattenSeq(seqs) = h[n]
  <2>1. FlattenSeq(seqs) = seqs
    BY <1>1, <1>7 DEF FlattenSeq
  <2>2. seqs = <<>>
    BY <1>1, <1>7
  <2> QED
    BY <1>4, <1>7, <2>1, <2>2
<1>8. ASSUME n > 0 PROVE FlattenSeq(seqs) = h[n]
  <2>1. FlattenSeq(seqs) = (CHOOSE g : Folds(g))[n]
    BY <1>1, <1>8 DEF FlattenSeq
  <2>2. PICK g : Folds(g) /\ FlattenSeq(seqs) = g[n]
    <3> HIDE DEF Folds
    <3> QED
      BY <1>6, <2>1, Zenon
  <2>3. \A i \in 1..n : g[i] = IF i = 1 THEN seqs[i] ELSE g[i - 1] \o seqs[i]
    BY <2>2
  <2>4. \A i \in 1..n : h[i] = IF i = 1 THEN seqs[i] ELSE h[i - 1] \o seqs[i]
    <3>1. \A i \in 1..n : f[i] = IF i = 1 THEN seqs[i] ELSE f[i - 1] \o seqs[i]
      BY <1>6
    <3>2. \A i \in 1..n : f[i] = h[i] /\ (i /= 1 => f[i - 1] = h[i - 1])
      BY <1>5
    <3> QED
      BY <3>1, <3>2
  <2> DEFINE T == {i \in Nat : i \in 1..n => g[i] = h[i]}
  <2>5. 0 \in T
    OBVIOUS
  <2>6. ASSUME NEW i \in Nat, i \in T PROVE i + 1 \in T
    <3> SUFFICES ASSUME i + 1 \in 1..n PROVE g[i + 1] = h[i + 1]
      OBVIOUS
    <3>1. PICK j \in 1..n : j = i + 1 /\ j - 1 = i
      OBVIOUS
    <3>2. j /= 1 => g[j - 1] = h[j - 1]
      BY <2>6, <3>1
    <3>3. /\ g[j] = IF j = 1 THEN seqs[j] ELSE g[j - 1] \o seqs[j]
          /\ h[j] = IF j = 1 THEN seqs[j] ELSE h[j - 1] \o seqs[j]
      BY <2>3, <2>4
    <3>4. g[j] = h[j]
      BY <3>2, <3>3
    <3> QED
      BY <3>1, <3>4
  <2>7. g[n] = h[n]
    <3>1. \A i \in Nat : i \in T
      <4> HIDE DEF T
      <4> QED
        BY <2>5, <2>6, NumberInduction
    <3> QED
      BY <1>8, <3>1
  <2> QED
    BY <2>2, <2>7
<1>9. FlattenSeq(seqs) = h[n]
  BY <1>7, <1>8
<1>10. \A k \in 0..n : h[k] \in Seq(E)
  OBVIOUS
<1> QED
  BY <1>1, <1>4, <1>9, <1>10 DEF Joins

\* The same of sequences in a sequence.
LEMMA FlattenJoins ==
    ASSUME NEW E, NEW seqs, seqs \in Seq(Seq(E))
    PROVE  \E h : Joins(h, seqs, E)
<1>1. PICK m \in Nat : m = Len(seqs) /\ seqs \in [1..m -> Seq(E)]
  <2>1. PICK D : D = Seq(E)
    OBVIOUS
  <2>2. seqs \in Seq(D)
    BY <2>1
  <2>3. Len(seqs) \in Nat /\ seqs \in [1..Len(seqs) -> D]
    BY <2>2, SeqIsFunction
  <2> QED
    BY <2>1, <2>3
<1>2. Rows(seqs, m, E)
  BY <1>1 DEF Rows
<1> QED
  BY <1>2, FlattenSteps

\* Sequences over a set are sequences over a larger one.
LEMMA SeqGrows ==
    ASSUME NEW A, NEW B, A \subseteq B, NEW s, s \in Seq(A)
    PROVE  s \in Seq(B)
OBVIOUS

\* Two sequences end to end hold what either holds.
LEMMA ConcatHolds ==
    ASSUME NEW E, NEW a, a \in Seq(E), NEW b, b \in Seq(E)
    PROVE  a \o b \in Seq(E) /\ ToSet(a \o b) = ToSet(a) \cup ToSet(b)
<1>1. PICK v : v = a \o b
  OBVIOUS
<1>2. PICK m \in Nat, n \in Nat : m = Len(a) /\ n = Len(b)
  OBVIOUS
<1>3. /\ v \in Seq(E) /\ Len(v) = m + n
      /\ \A i \in 1..m : v[i] = a[i]
      /\ \A i \in 1..n : v[m + i] = b[i]
  BY <1>1, <1>2
<1>4. /\ ToSet(a) = {a[i] : i \in 1..m} /\ ToSet(b) = {b[i] : i \in 1..n}
      /\ ToSet(v) = {v[i] : i \in 1..(m + n)}
  <2>1. DOMAIN a = 1..m /\ DOMAIN b = 1..n /\ DOMAIN v = 1..(m + n)
    BY <1>2, <1>3
  <2> QED
    BY <2>1 DEF ToSet
<1>5. \A i \in 1..(m + n) : i \in 1..m \/ \E j \in 1..n : i = m + j
  <2> SUFFICES ASSUME NEW i \in 1..(m + n), i \notin 1..m
               PROVE  \E j \in 1..n : i = m + j
    OBVIOUS
  <2>1. i - m \in 1..n /\ i = m + (i - m)
    OBVIOUS
  <2> QED
    BY <2>1
<1>6. \A j \in 1..n : m + j \in 1..(m + n)
  OBVIOUS
<1>7. \A i \in 1..m : i \in 1..(m + n)
  OBVIOUS
<1>8. ToSet(v) = ToSet(a) \cup ToSet(b)
  <2>1. \A x \in ToSet(v) : x \in ToSet(a) \cup ToSet(b)
    <3> SUFFICES ASSUME NEW i \in 1..(m + n)
                 PROVE  v[i] \in ToSet(a) \cup ToSet(b)
      BY <1>4
    <3>1. CASE i \in 1..m
      BY <1>3, <1>4, <3>1
    <3>2. ASSUME NEW j \in 1..n, i = m + j PROVE v[i] \in ToSet(b)
      <4>1. v[i] = b[j]
        BY <1>3, <3>2
      <4> QED
        BY <1>4, <4>1
    <3> QED
      BY <1>5, <3>1, <3>2
  <2>2. \A x \in ToSet(a) : x \in ToSet(v)
    BY <1>3, <1>4, <1>7
  <2>3. \A x \in ToSet(b) : x \in ToSet(v)
    BY <1>3, <1>4, <1>6
  <2> QED
    BY <2>1, <2>2, <2>3
<1> QED
  BY <1>1, <1>3, <1>8

\* ... and so do any number of them.
LEMMA FlattenHolds ==
    ASSUME NEW E, NEW seqs, seqs \in Seq(Seq(E))
    PROVE  /\ FlattenSeq(seqs) \in Seq(E)
           /\ ToSet(FlattenSeq(seqs)) = UNION {ToSet(seqs[i]) : i \in 1..Len(seqs)}
<1>1. PICK h : Joins(h, seqs, E)
  BY FlattenJoins
<1>2. PICK n \in Nat : n = Len(seqs) /\ \A k \in 1..n : seqs[k] \in Seq(E)
  OBVIOUS
<1>3. /\ \A k \in 0..n : h[k] \in Seq(E)
      /\ h[0] = <<>> /\ h[n] = FlattenSeq(seqs)
      /\ \A k \in 1..n : h[k] = h[k - 1] \o seqs[k]
  BY <1>1, <1>2 DEF Joins
<1> DEFINE Held(k) == UNION {ToSet(seqs[i]) : i \in 1..k}
           T == {k \in Nat : k \in 0..n => ToSet(h[k]) = Held(k)}
<1>4. 0 \in T
  <2>1. ToSet(<<>>) = {}
    BY DEF ToSet
  <2>2. 1..0 = {}
    OBVIOUS
  <2>3. Held(0) = {}
    BY <2>2
  <2> QED
    BY <1>3, <2>1, <2>3
<1>5. ASSUME NEW k \in Nat, k \in T PROVE k + 1 \in T
  <2> SUFFICES ASSUME k + 1 \in 0..n PROVE ToSet(h[k + 1]) = Held(k + 1)
    OBVIOUS
  <2>1. PICK m \in 1..n : m = k + 1 /\ m - 1 = k /\ k \in 0..n
    OBVIOUS
  <2>2. h[m] = h[k] \o seqs[m] /\ h[k] \in Seq(E) /\ seqs[m] \in Seq(E)
    BY <1>2, <1>3, <2>1
  <2>3. ToSet(h[m]) = ToSet(h[k]) \cup ToSet(seqs[m])
    BY <2>2, ConcatHolds
  <2>4. ToSet(h[k]) = Held(k)
    BY <1>5, <2>1
  <2>5. 1..m = (1..k) \cup {m}
    BY <2>1
  <2>6. Held(m) = Held(k) \cup ToSet(seqs[m])
    BY <2>5
  <2> HIDE DEF Held
  <2> QED
    BY <2>1, <2>3, <2>4, <2>6
<1>6. ToSet(h[n]) = Held(n)
  <2>1. \A k \in Nat : k \in T
    <3> HIDE DEF T
    <3> QED
      BY <1>4, <1>5, NumberInduction
  <2>2. n \in T
    BY <2>1, Zenon
  <2>3. n \in 0..n
    OBVIOUS
  <2> HIDE DEF Held
  <2> QED
    BY <2>2, <2>3
<1>7. FlattenSeq(seqs) \in Seq(E)
  <2>1. n \in 0..n
    OBVIOUS
  <2> QED
    BY <1>3, <2>1
<1> QED
  BY <1>2, <1>3, <1>6, <1>7

-----------------------------------------------------------------------------
(* Sums of sequences.                                                      *)

\* SumSeq adds element by element.
LEMMA SumSeqSteps ==
    ASSUME NEW n \in Nat, NEW s \in [1..n -> Nat]
    PROVE  \E h :
               /\ \A k \in 0..n : h[k] \in Nat
               /\ h[0] = 0 /\ h[n] = SumSeq(s)
               /\ \A k \in 1..n : h[k] = h[k - 1] + s[k]
<1> DEFINE Folds(g) == g = [d \in SUBSET DOMAIN s |->
                IF d = {} THEN 0 ELSE g[d \ {Max(d)}] + s[Max(d)]]
           step == [p \in Nat \X (1..n) |-> p[1] + s[p[2]]]
<1>1. DOMAIN s = 1..n
  OBVIOUS
<1>2. StaysIn(Nat, step, n)
  BY DEF StaysIn
<1>3. SumSeq(s) = (CHOOSE g : Folds(g))[DOMAIN s]
  BY DEF SumSeq, FoldLeft, MapThenFoldSet
<1>4. \A d \in SUBSET (1..n) : d /= {} => Max(d) \in 1..n /\ d \ {Max(d)} \in SUBSET (1..n)
  BY LastPosition
<1>5. \A a \in Nat, k \in 1..n : step[<<a, k>>] = a + s[k]
  BY <1>1
<1>6. \E g : Folds(g)
  <2>1. PICK g \in [SUBSET (1..n) -> Nat] : Follows(g, 0, step, n)
    <3> HIDE DEF step
    <3> QED
      BY <1>2, FoldExists
  <2>2. \A d \in SUBSET (1..n) :
            g[d] = IF d = {} THEN 0 ELSE g[d \ {Max(d)}] + s[Max(d)]
    <3> HIDE DEF step
    <3> QED
      BY <1>4, <1>5, <2>1 DEF Follows
  <2>3. Folds(g)
    BY <1>1, <2>1, <2>2
  <2> QED
    BY <2>3
<1>7. PICK g : Folds(g) /\ SumSeq(s) = g[1..n]
  <2> HIDE DEF Folds
  <2> QED
    BY <1>1, <1>3, <1>6, Zenon
<1>8. \A d \in SUBSET (1..n) :
          g[d] = IF d = {} THEN 0 ELSE g[d \ {Max(d)}] + s[Max(d)]
  BY <1>1, <1>7
<1> HIDE DEF step, Folds
<1>9. PICK A, zero : A = Nat /\ zero = 0
  OBVIOUS
<1>10. FollowsIn(A, g, zero, step, n)
  BY <1>4, <1>5, <1>8, <1>9 DEF FollowsIn
<1>11. zero \in A /\ StaysIn(A, step, n)
  BY <1>2, <1>9
<1>12. PICK h : Steps(A, h, zero, step, n) /\ h[n] = g[1..n]
  BY <1>10, <1>11, FoldSteps
<1>13. h[0] = 0 /\ \A k \in 0..n : h[k] \in Nat
  BY <1>9, <1>12 DEF Steps
<1>14. ASSUME NEW k \in 1..n PROVE h[k] = h[k - 1] + s[k]
  <2>1. h[k - 1] \in Nat
    BY <1>13
  <2>2. h[k] = step[<<h[k - 1], k>>]
    BY <1>12 DEF Steps
  <2> QED
    BY <1>5, <2>1, <2>2
<1> QED
  BY <1>7, <1>12, <1>13, <1>14

\* The sum of nothing is 0, that of one number the number ...
LEMMA SumSeqSmall ==
    ASSUME NEW n \in 0..1, NEW s \in [1..n -> Nat]
    PROVE  SumSeq(s) = IF n = 0 THEN 0 ELSE s[1]
<1>1. PICK h : /\ \A k \in 0..n : h[k] \in Nat
               /\ h[0] = 0 /\ h[n] = SumSeq(s)
               /\ \A k \in 1..n : h[k] = h[k - 1] + s[k]
  BY SumSeqSteps
<1>2. CASE n = 0
  BY <1>1, <1>2
<1>3. CASE n = 1
  <2>1. h[1] = h[1 - 1] + s[1] /\ 1 - 1 = 0 /\ s[1] \in Nat
    BY <1>1, <1>3
  <2> QED
    BY <1>1, <1>3, <2>1
<1> QED
  BY <1>2, <1>3

\* ... smaller numbers have a smaller sum, and the same only if they are the
\* same ...
LEMMA SumSeqCompare ==
    ASSUME NEW n \in Nat, NEW s \in [1..n -> Nat], NEW t \in [1..n -> Nat],
           \A k \in 1..n : s[k] <= t[k]
    PROVE  /\ SumSeq(s) \in Nat /\ SumSeq(t) \in Nat /\ SumSeq(s) <= SumSeq(t)
           /\ SumSeq(s) = SumSeq(t) <=> \A k \in 1..n : s[k] = t[k]
<1>1. PICK f : /\ \A k \in 0..n : f[k] \in Nat
               /\ f[0] = 0 /\ f[n] = SumSeq(s)
               /\ \A k \in 1..n : f[k] = f[k - 1] + s[k]
  BY SumSeqSteps
<1>2. PICK h : /\ \A k \in 0..n : h[k] \in Nat
               /\ h[0] = 0 /\ h[n] = SumSeq(t)
               /\ \A k \in 1..n : h[k] = h[k - 1] + t[k]
  BY SumSeqSteps
<1> DEFINE Same(k) == \A j \in 1..k : s[j] = t[j]
           T == {k \in Nat : k \in 0..n =>
                    f[k] <= h[k] /\ (f[k] = h[k] <=> Same(k))}
<1>3. 0 \in T
  BY <1>1, <1>2
<1>4. ASSUME NEW k \in Nat, k \in T PROVE k + 1 \in T
  <2> SUFFICES ASSUME k + 1 \in 0..n
               PROVE  f[k + 1] <= h[k + 1] /\ (f[k + 1] = h[k + 1] <=> Same(k + 1))
    OBVIOUS
  <2>1. PICK j \in 1..n : j = k + 1 /\ j - 1 = k
    OBVIOUS
  <2>2. f[j] = f[k] + s[j] /\ h[j] = h[k] + t[j]
    BY <1>1, <1>2, <2>1
  <2>3. f[k] <= h[k] /\ (f[k] = h[k] <=> Same(k))
    BY <1>4
  <2>4. Same(j) <=> Same(k) /\ s[j] = t[j]
    <3>1. \A i \in 1..j : i \in 1..k \/ i = j
      BY <2>1
    <3>2. j \in 1..j /\ \A i \in 1..k : i \in 1..j
      BY <2>1
    <3> QED
      BY <3>1, <3>2
  <2>5. f[k] \in Nat /\ h[k] \in Nat /\ s[j] \in Nat /\ t[j] \in Nat /\ s[j] <= t[j]
    BY <1>1, <1>2
  <2> HIDE DEF Same
  <2>6. f[j] <= h[j] /\ (f[j] = h[j] <=> Same(j))
    BY <2>2, <2>3, <2>4, <2>5
  <2> QED
    BY <2>1, <2>6
<1>5. f[n] <= h[n] /\ (f[n] = h[n] <=> Same(n))
  <2>1. \A k \in Nat : k \in T
    <3> HIDE DEF T
    <3> QED
      BY <1>3, <1>4, NumberInduction
  <2> QED
    BY <2>1
<1> QED
  BY <1>1, <1>2, <1>5

\* ... and one more adds itself.
LEMMA SumSeqAppend ==
    ASSUME NEW n \in Nat, NEW s \in [1..n -> Nat], NEW t \in [1..(n + 1) -> Nat],
           \A k \in 1..n : s[k] = t[k]
    PROVE  SumSeq(t) = SumSeq(s) + t[n + 1]
<1>1. PICK m \in Nat : m = n + 1
  OBVIOUS
<1>2. PICK h : /\ \A k \in 0..m : h[k] \in Nat
               /\ h[0] = 0 /\ h[m] = SumSeq(t)
               /\ \A k \in 1..m : h[k] = h[k - 1] + t[k]
  <2>1. t \in [1..m -> Nat]
    BY <1>1
  <2> QED
    BY <2>1, SumSeqSteps
<1>3. PICK f : /\ \A k \in 0..n : f[k] \in Nat
               /\ f[0] = 0 /\ f[n] = SumSeq(s)
               /\ \A k \in 1..n : f[k] = f[k - 1] + s[k]
  BY SumSeqSteps
<1> DEFINE T == {k \in Nat : k \in 0..n => f[k] = h[k]}
<1>4. 0 \in T
  BY <1>2, <1>3
<1>5. ASSUME NEW k \in Nat, k \in T PROVE k + 1 \in T
  <2> SUFFICES ASSUME k + 1 \in 0..n PROVE f[k + 1] = h[k + 1]
    OBVIOUS
  <2>1. PICK j \in 1..n : j = k + 1 /\ j - 1 = k
    OBVIOUS
  <2>2. f[j] = f[j - 1] + s[j] /\ h[j] = h[j - 1] + t[j] /\ s[j] = t[j]
    BY <1>1, <1>2, <1>3, SMTT(40)
  <2>3. f[k] = h[k]
    BY <1>5
  <2> QED
    BY <2>1, <2>2, <2>3
<1>6. f[n] = h[n]
  <2>1. \A k \in Nat : k \in T
    <3> HIDE DEF T
    <3> QED
      BY <1>4, <1>5, NumberInduction
  <2> QED
    BY <2>1
<1>7. h[m] = h[m - 1] + t[m] /\ m - 1 = n
  BY <1>1, <1>2
<1> QED
  BY <1>1, <1>2, <1>3, <1>6, <1>7

-----------------------------------------------------------------------------
(* The parts of a summary.                                                 *)

\* What the loop makes of the parts so far and chunk i.
Grown(sizes, parts, i) ==
    IF /\ Last(parts) /= <<>>
       /\ PartSize(sizes, Last(parts)) + sizes[i] > PartChars
      THEN Append(parts, <<i>>)
      ELSE Append(Front(parts), Append(Last(parts), i))

\* Adding a chunk to parts gives parts.
LEMMA GrownIsParts ==
    ASSUME NEW n \in Nat, NEW sizes \in [1..n -> Nat], NEW i \in 1..n,
           NEW parts \in Seq(Seq(1..n)), parts /= <<>>
    PROVE  Grown(sizes, parts, i) \in Seq(Seq(1..n)) \ {<<>>}
<1>1. Last(parts) \in Seq(1..n) /\ Front(parts) \in Seq(Seq(1..n))
  BY DEF Last, Front
<1>2. Append(Last(parts), i) \in Seq(1..n) /\ <<i>> \in Seq(1..n)
  BY <1>1
<1> QED
  BY <1>1, <1>2, AppendIn DEF Grown

\* plan_summary_parts() goes through the chunks in order.
LEMMA PlanSteps ==
    ASSUME NEW n \in Nat, NEW sizes \in [1..n -> Nat],
           ~(SumSeq(sizes) <= SinglePass)
    PROVE  \E h : /\ \A k \in 0..n : h[k] \in Seq(Seq(1..n)) \ {<<>>}
                  /\ h[0] = <<<<>>>> /\ h[n] = Plan(sizes)
                  /\ \A k \in 1..n : h[k] = Grown(sizes, h[k - 1], k)
<1>1. PICK A, empty : A = Seq(Seq(1..n)) \ {<<>>} /\ empty = <<<<>>>>
  OBVIOUS
<1>2. PICK s : s = [i \in 1..Len(sizes) |-> i]
  OBVIOUS
<1> DEFINE Folds(g) == g = [d \in SUBSET DOMAIN s |->
                IF d = {} THEN <<<<>>>>
                ELSE Grown(sizes, g[d \ {Max(d)}], s[Max(d)])]
           step == [p \in A \X (1..n) |-> Grown(sizes, p[1], p[2])]
<1>3. Len(sizes) = n /\ DOMAIN s = 1..n /\ \A i \in 1..n : s[i] = i
  BY <1>2, FunctionIsSeq
<1>4. StaysIn(A, step, n)
  BY <1>1, GrownIsParts DEF StaysIn
<1>5. empty \in A
  BY <1>1
<1>6. Plan(sizes) = (CHOOSE g : Folds(g))[DOMAIN s]
  BY <1>2 DEF Plan, FoldLeft, MapThenFoldSet, Grown
<1>7. \A d \in SUBSET (1..n) : d /= {} => Max(d) \in 1..n /\ d \ {Max(d)} \in SUBSET (1..n)
  BY LastPosition
<1>8. \A a \in A, k \in 1..n : step[<<a, k>>] = Grown(sizes, a, k)
  OBVIOUS
<1>9. \E g : Folds(g)
  <2>1. PICK g \in [SUBSET (1..n) -> A] : Follows(g, empty, step, n)
    <3> HIDE DEF step
    <3> QED
      BY <1>4, <1>5, FoldExists
  <2>2. \A d \in SUBSET (1..n) :
            g[d] = IF d = {} THEN <<<<>>>>
                   ELSE Grown(sizes, g[d \ {Max(d)}], s[Max(d)])
    <3> SUFFICES ASSUME NEW d \in SUBSET (1..n), d /= {}
                 PROVE  g[d] = Grown(sizes, g[d \ {Max(d)}], s[Max(d)])
      BY <1>1, <2>1 DEF Follows
    <3>1. Max(d) \in 1..n /\ d \ {Max(d)} \in SUBSET (1..n)
      BY <1>7
    <3>2. g[d] = step[<<g[d \ {Max(d)}], Max(d)>>]
      BY <2>1 DEF Follows
    <3>3. g[d \ {Max(d)}] \in A /\ s[Max(d)] = Max(d)
      BY <1>3, <3>1
    <3> HIDE DEF step
    <3> QED
      BY <1>8, <3>1, <3>2, <3>3
  <2>3. Folds(g)
    BY <1>3, <2>1, <2>2
  <2> QED
    BY <2>3
<1>10. PICK g : Folds(g) /\ Plan(sizes) = g[1..n]
  <2> HIDE DEF Folds
  <2> QED
    BY <1>3, <1>6, <1>9, Zenon
<1>11. \A d \in SUBSET (1..n) :
          g[d] = IF d = {} THEN <<<<>>>>
                 ELSE Grown(sizes, g[d \ {Max(d)}], s[Max(d)])
  BY <1>3, <1>10
<1> HIDE DEF step, Folds
<1>12. FollowsIn(A, g, empty, step, n)
  <2>1. g[{}] = empty
    BY <1>1, <1>11
  <2>2. ASSUME NEW d \in SUBSET (1..n), d /= {}, g[d \ {Max(d)}] \in A
        PROVE  g[d] = step[<<g[d \ {Max(d)}], Max(d)>>]
    <3>1. Max(d) \in 1..n /\ s[Max(d)] = Max(d)
      BY <1>3, <1>7, <2>2
    <3>2. g[d] = Grown(sizes, g[d \ {Max(d)}], s[Max(d)])
      BY <1>11, <2>2
    <3> QED
      BY <1>8, <2>2, <3>1, <3>2
  <2> QED
    BY <2>1, <2>2 DEF FollowsIn
<1>13. PICK h : Steps(A, h, empty, step, n) /\ h[n] = g[1..n]
  BY <1>4, <1>5, <1>12, FoldSteps
<1>14. h[0] = <<<<>>>> /\ \A k \in 0..n : h[k] \in A
  BY <1>1, <1>13 DEF Steps
<1>15. ASSUME NEW k \in 1..n PROVE h[k] = Grown(sizes, h[k - 1], k)
  <2>1. h[k - 1] \in A
    BY <1>14
  <2>2. h[k] = step[<<h[k - 1], k>>]
    BY <1>13 DEF Steps
  <2> QED
    BY <1>8, <2>1, <2>2
<1> QED
  BY <1>1, <1>10, <1>13, <1>14, <1>15


\* The numbers after a up to b.
Piece(a, b) == [j \in 1..(b - a) |-> a + j]

\* The parts hold the chunks 1 to k in order; part p ends with chunk cut[p].
Cuts(cut, parts, k) ==
    /\ cut[0] = 0 /\ cut[Len(parts)] = k
    /\ \A p \in 0..Len(parts) : cut[p] \in 0..k
    /\ \A p \in 1..Len(parts) : parts[p] = Piece(cut[p - 1], cut[p])
    /\ \A p, q \in 0..Len(parts) : p < q => cut[p] <= cut[q]
    /\ k > 0 => \A p \in 1..Len(parts) : cut[p - 1] < cut[p]
    /\ k = 0 => Len(parts) = 1

\* No part is larger than a call takes, unless it is a single chunk.
Fits(sizes, parts) ==
    \A p \in 1..Len(parts) :
        Len(parts[p]) = 1 \/ PartSize(sizes, parts[p]) <= PartChars

\* A piece has its length, and grows by its next number.
LEMMA PieceGrows ==
    ASSUME NEW a \in Nat, NEW b \in Nat, a <= b
    PROVE  /\ Piece(a, b) \in Seq(Nat) /\ Len(Piece(a, b)) = b - a
           /\ \A j \in 1..(b - a) : Piece(a, b)[j] = a + j
           /\ Append(Piece(a, b), b + 1) = Piece(a, b + 1)
<1>1. PICK d \in Nat : d = b - a /\ (b + 1) - a = d + 1
  OBVIOUS
<1>2. PICK s : s = [j \in 1..d |-> a + j]
  OBVIOUS
<1>3. s \in [1..d -> Nat] /\ \A j \in 1..d : s[j] = a + j
  BY <1>2
<1>4. s \in Seq(Nat) /\ Len(s) = d
  BY <1>3, FunctionIsSeq
<1>5. Piece(a, b) = s
  BY <1>1, <1>2 DEF Piece
<1>6. PICK t : t = [j \in 1..(d + 1) |-> a + j]
  OBVIOUS
<1>7. Piece(a, b + 1) = t
  BY <1>1, <1>6 DEF Piece
<1>8. Append(s, b + 1) = t
  <2>1. t \in Seq(Nat) /\ Len(t) = d + 1
    BY <1>6, FunctionIsSeq
  <2>2. PICK u : u = Append(s, b + 1)
    OBVIOUS
  <2>3. u \in Seq(Nat) /\ Len(u) = d + 1
    BY <1>4, <2>2
  <2>4. \A j \in 1..(d + 1) : u[j] = t[j]
    <3> SUFFICES ASSUME NEW j \in 1..(d + 1) PROVE u[j] = t[j]
      OBVIOUS
    <3>1. t[j] = a + j
      BY <1>6
    <3>2. CASE j <= d
      <4>1. j \in 1..d
        BY <3>2
      <4> QED
        BY <1>3, <1>4, <2>2, <3>1, <4>1
    <3>3. CASE j = d + 1
      <4>1. u[j] = b + 1
        BY <1>4, <2>2, <3>3
      <4> QED
        BY <1>1, <3>1, <3>3, <4>1
    <3> QED
      BY <3>2, <3>3
  <2> QED
    BY <2>1, <2>2, <2>3, <2>4, SeqEqual
<1> QED
  BY <1>1, <1>3, <1>4, <1>5, <1>7, <1>8

\* A piece of nothing is empty.
LEMMA NoPiece == Piece(0, 0) = <<>>
<1>1. PICK z \in Nat : z = 0 /\ z <= z /\ z - z = 0
  OBVIOUS
<1>2. Piece(z, z) \in Seq(Nat) /\ Len(Piece(z, z)) = 0
  BY <1>1, PieceGrows
<1> QED
  BY <1>1, <1>2, EmptySeq

\* The size of a part with one more chunk.
LEMMA PartSizeGrows ==
    ASSUME NEW n \in Nat, NEW sizes \in [1..n -> Nat],
           NEW part \in Seq(1..n), NEW i \in 1..n
    PROVE  PartSize(sizes, Append(part, i)) = PartSize(sizes, part) + sizes[i]
<1>1. PICK m \in Nat : m = Len(part)
  OBVIOUS
<1>2. PICK more : more = Append(part, i)
  OBVIOUS
<1>3. /\ Len(more) = m + 1 /\ more[m + 1] = i
      /\ \A k \in 1..m : more[k] = part[k] /\ part[k] \in 1..n
  BY <1>1, <1>2, SMTT(40)
<1>4. \A k \in 1..(m + 1) : more[k] \in 1..n
  <2> SUFFICES ASSUME NEW k \in 1..(m + 1) PROVE more[k] \in 1..n
    OBVIOUS
  <2>1. k \in 1..m \/ k = m + 1
    OBVIOUS
  <2> QED
    BY <1>3, <2>1
<1>5. PICK s : s = [k \in 1..m |-> sizes[part[k]]]
  OBVIOUS
<1>6. PICK t : t = [k \in 1..(m + 1) |-> sizes[more[k]]]
  OBVIOUS
<1>7. s \in [1..m -> Nat] /\ t \in [1..(m + 1) -> Nat]
  BY <1>3, <1>4, <1>5, <1>6
<1>8. t[m + 1] = sizes[i] /\ \A k \in 1..m : s[k] = t[k]
  BY <1>3, <1>5, <1>6, SMTT(40)
<1>9. SumSeq(t) = SumSeq(s) + t[m + 1]
  BY <1>7, <1>8, SumSeqAppend
<1>10. PartSize(sizes, part) = SumSeq(s) /\ PartSize(sizes, more) = SumSeq(t)
  BY <1>1, <1>3, <1>5, <1>6 DEF PartSize
<1> QED
  BY <1>2, <1>8, <1>9, <1>10


\* A part that is full is closed ...
LEMMA NewPart ==
    ASSUME NEW n \in Nat, NEW sizes \in [1..n -> Nat], NEW k \in Nat, k > 0,
           NEW parts, parts \in Seq(Seq(1..n)),
           NEW cut, Cuts(cut, parts, k), Fits(sizes, parts)
    PROVE  LET more == Append(parts, <<k + 1>>) IN
           (\E c : Cuts(c, more, k + 1)) /\ Fits(sizes, more)
<1>1. PICK m \in Nat : m = Len(parts)
  OBVIOUS
<1>2. PICK more, one : one = <<k + 1>> /\ more = Append(parts, one)
  OBVIOUS
<1>3. /\ Len(more) = m + 1 /\ more[m + 1] = one
      /\ \A p \in 1..m : more[p] = parts[p]
  BY <1>1, <1>2
<1>4. /\ cut[0] = 0 /\ cut[m] = k
      /\ \A p \in 0..m : cut[p] \in 0..k
      /\ \A p \in 1..m : parts[p] = Piece(cut[p - 1], cut[p])
      /\ \A p, q \in 0..m : p < q => cut[p] <= cut[q]
      /\ \A p \in 1..m : cut[p - 1] < cut[p]
  BY <1>1 DEF Cuts
<1>5. PICK c : c = [p \in 0..(m + 1) |-> IF p <= m THEN cut[p] ELSE k + 1]
  OBVIOUS
<1>6. c[m + 1] = k + 1 /\ \A p \in 0..m : c[p] = cut[p]
  BY <1>5
<1>7. one = Piece(k, k + 1)
  <2>1. (k + 1) - k = 1 /\ 1..1 = {1}
    OBVIOUS
  <2>2. Piece(k, k + 1) \in Seq(Nat) /\ Len(Piece(k, k + 1)) = 1
        /\ Piece(k, k + 1)[1] = k + 1
    <3>1. k + 1 \in Nat /\ k <= k + 1 /\ 1 \in 1..((k + 1) - k)
      OBVIOUS
    <3> QED
      BY <2>1, <3>1, PieceGrows
  <2>3. one \in Seq(Nat) /\ Len(one) = 1 /\ one[1] = k + 1
    BY <1>2
  <2> QED
    BY <2>2, <2>3, SeqEqual
<1>8. \A p \in 0..(m + 1) : c[p] \in 0..(k + 1)
  <2> SUFFICES ASSUME NEW p \in 0..(m + 1) PROVE c[p] \in 0..(k + 1)
    OBVIOUS
  <2>1. p \in 0..m \/ p = m + 1
    OBVIOUS
  <2>2. p \in 0..m => cut[p] \in 0..k
    BY <1>4
  <2> QED
    BY <1>6, <2>1, <2>2
<1>9. ASSUME NEW p \in 1..(m + 1)
      PROVE  more[p] = Piece(c[p - 1], c[p]) /\ c[p - 1] < c[p]
  <2>1. CASE p = m + 1
    <3>1. p - 1 = m /\ m \in 0..m
      BY <2>1
    <3> QED
      BY <1>3, <1>4, <1>6, <1>7, <2>1, <3>1
  <2>2. CASE p /= m + 1
    <3>1. p \in 1..m /\ p \in 0..m /\ p - 1 \in 0..m
      BY <2>2
    <3> QED
      BY <1>3, <1>4, <1>6, <3>1
  <2> QED
    BY <2>1, <2>2
<1>10. ASSUME NEW p \in 0..(m + 1), NEW q \in 0..(m + 1), p < q
       PROVE  c[p] <= c[q]
  <2>1. CASE q = m + 1
    <3>1. c[q] = k + 1 /\ c[p] \in 0..(k + 1)
      BY <1>6, <1>8, <2>1
    <3> QED
      BY <3>1
  <2>2. CASE q /= m + 1
    <3>1. p \in 0..m /\ q \in 0..m
      BY <1>10, <2>2
    <3> QED
      BY <1>4, <1>6, <1>10, <3>1
  <2> QED
    BY <2>1, <2>2
<1>11. c[0] = 0
  BY <1>4, <1>6
<1>12. Cuts(c, more, k + 1)
  <2>1. k + 1 /= 0
    OBVIOUS
  <2> QED
    BY <1>3, <1>6, <1>8, <1>9, <1>10, <1>11, <2>1 DEF Cuts
<1>13. Fits(sizes, more)
  <2> SUFFICES ASSUME NEW p \in 1..(m + 1)
               PROVE  Len(more[p]) = 1 \/ PartSize(sizes, more[p]) <= PartChars
    BY <1>3 DEF Fits
  <2>1. p \in 1..m \/ p = m + 1
    OBVIOUS
  <2>2. Len(one) = 1
    BY <1>2
  <2> QED
    BY <1>1, <1>3, <2>1, <2>2 DEF Fits
<1> QED
  BY <1>2, <1>12, <1>13

\* ... and one that is not takes the chunk.
LEMMA SamePart ==
    ASSUME NEW n \in Nat, NEW sizes \in [1..n -> Nat], NEW k \in Nat,
           k + 1 \in 1..n, NEW parts, parts \in Seq(Seq(1..n)), parts /= <<>>,
           NEW cut, Cuts(cut, parts, k), Fits(sizes, parts),
           Last(parts) = <<>> \/ PartSize(sizes, Last(parts)) + sizes[k + 1] <= PartChars
    PROVE  LET more == Append(Front(parts), Append(Last(parts), k + 1)) IN
           (\E c : Cuts(c, more, k + 1)) /\ Fits(sizes, more)
<1>1. PICK m \in Nat : m = Len(parts) /\ m > 0 /\ m \in 1..m /\ m \in 0..m
  OBVIOUS
<1>2. PICK more, last, part :
          /\ last = Last(parts) /\ part = Append(last, k + 1)
          /\ more = Append(Front(parts), part)
  OBVIOUS
<1>3. last = parts[m] /\ last \in Seq(1..n)
  BY <1>1, <1>2 DEF Last
<1>4. /\ Len(more) = m /\ more[m] = part
      /\ \A p \in 1..m : p /= m => more[p] = parts[p]
  <2>1. PICK f : f = Front(parts)
    OBVIOUS
  <2>2. /\ f \in Seq(Seq(1..n)) /\ Len(f) = m - 1
        /\ \A p \in 1..(m - 1) : f[p] = parts[p]
    BY <1>1, <2>1 DEF Front
  <2>3. more = Append(f, part)
    BY <1>2, <2>1
  <2>4. Len(more) = m /\ more[m] = part /\ \A p \in 1..(m - 1) : more[p] = f[p]
    BY <1>1, <2>2, <2>3, SMTT(40)
  <2> QED
    BY <2>2, <2>4
<1>5. /\ cut[0] = 0 /\ cut[m] = k
      /\ \A p \in 0..m : cut[p] \in 0..k
      /\ \A p \in 1..m : parts[p] = Piece(cut[p - 1], cut[p])
      /\ \A p, q \in 0..m : p < q => cut[p] <= cut[q]
      /\ k > 0 => \A p \in 1..m : cut[p - 1] < cut[p]
      /\ k = 0 => m = 1
  BY <1>1 DEF Cuts
<1>6. PICK c : c = [p \in 0..m |-> IF p < m THEN cut[p] ELSE k + 1]
  OBVIOUS
<1>7. c[m] = k + 1 /\ \A p \in 0..m : p /= m => c[p] = cut[p]
  BY <1>6
<1>8. PICK a \in Nat : a = cut[m - 1] /\ a <= k /\ c[m - 1] = a
  <2>1. m - 1 \in 0..m /\ m - 1 /= m
    BY <1>1
  <2>2. PICK a \in 0..k : a = cut[m - 1]
    BY <1>5, <2>1
  <2>3. c[m - 1] = cut[m - 1]
    BY <1>7, <2>1
  <2>4. a \in Nat /\ a <= k
    OBVIOUS
  <2> QED
    BY <2>2, <2>3, <2>4
<1>9. part = Piece(a, k + 1)
  <2>1. last = Piece(a, k)
    BY <1>1, <1>3, <1>5, <1>8
  <2> QED
    BY <1>2, <1>8, <2>1, PieceGrows
<1>10. \A p \in 0..m : c[p] \in 0..(k + 1)
  <2> SUFFICES ASSUME NEW p \in 0..m PROVE c[p] \in 0..(k + 1)
    OBVIOUS
  <2>1. CASE p = m
    BY <1>7, <2>1
  <2>2. CASE p /= m
    <3>1. PICK e \in 0..k : e = cut[p]
      BY <1>5
    <3>2. c[p] = e
      BY <1>7, <2>2, <3>1
    <3>3. e \in 0..(k + 1)
      OBVIOUS
    <3> QED
      BY <3>2, <3>3
  <2> QED
    BY <2>1, <2>2
<1>11. ASSUME NEW p \in 1..m
       PROVE  more[p] = Piece(c[p - 1], c[p]) /\ c[p - 1] < c[p]
  <2>1. CASE p = m
    BY <1>4, <1>7, <1>8, <1>9, <2>1
  <2>2. CASE p /= m
    <3>1. p \in 0..m /\ p - 1 \in 0..m /\ p - 1 /= m /\ m > 1
      BY <2>2
    <3>2. c[p] = cut[p] /\ c[p - 1] = cut[p - 1] /\ more[p] = parts[p]
      BY <1>4, <1>7, <2>2, <3>1
    <3>3. k > 0
      BY <1>5, <3>1
    <3> QED
      BY <1>5, <3>2, <3>3
  <2> QED
    BY <2>1, <2>2
<1>12. ASSUME NEW p \in 0..m, NEW q \in 0..m, p < q PROVE c[p] <= c[q]
  <2>1. CASE q = m
    <3>1. c[q] = k + 1 /\ c[p] \in 0..(k + 1)
      BY <1>7, <1>10, <2>1
    <3> QED
      BY <3>1
  <2>2. CASE q /= m
    <3>1. p /= m
      BY <1>12
    <3>2. c[p] = cut[p] /\ c[q] = cut[q] /\ cut[p] <= cut[q]
      BY <1>5, <1>7, <1>12, <2>2, <3>1
    <3> QED
      BY <3>2
  <2> QED
    BY <2>1, <2>2
<1>13. c[0] = 0
  <2>1. 0 \in 0..m /\ 0 /= m
    BY <1>1
  <2> QED
    BY <1>5, <1>7, <2>1
<1>14. Cuts(c, more, k + 1)
  <2>1. k + 1 /= 0
    OBVIOUS
  <2> QED
    BY <1>4, <1>7, <1>10, <1>11, <1>12, <1>13, <2>1 DEF Cuts
<1>15. Len(part) = 1 \/ PartSize(sizes, part) <= PartChars
  <2>1. CASE last = <<>>
    BY <1>2, <2>1
  <2>2. CASE PartSize(sizes, last) + sizes[k + 1] <= PartChars
    BY <1>2, <1>3, <2>2, PartSizeGrows
  <2> QED
    BY <1>2, <2>1, <2>2
<1>16. Fits(sizes, more)
  <2> SUFFICES ASSUME NEW p \in 1..m
               PROVE  Len(more[p]) = 1 \/ PartSize(sizes, more[p]) <= PartChars
    BY <1>4 DEF Fits
  <2>1. CASE p = m
    BY <1>4, <1>15, <2>1
  <2>2. CASE p /= m
    <3>1. more[p] = parts[p]
      BY <1>4, <2>2
    <3> QED
      BY <1>1, <3>1 DEF Fits
  <2> QED
    BY <2>1, <2>2
<1> QED
  BY <1>2, <1>14, <1>16


\* Every plan cuts the chunks into parts that hold all of them in order, and
\* fit but for a text that is read at once.
LEMMA PlanCuts ==
    ASSUME NEW n \in Nat, n > 0, NEW sizes \in [1..n -> Nat]
    PROVE  /\ Plan(sizes) \in Seq(Seq(1..n))
           /\ \E c : Cuts(c, Plan(sizes), n)
           /\ \/ SumSeq(sizes) <= SinglePass /\ Len(Plan(sizes)) = 1
              \/ Fits(sizes, Plan(sizes))
<1>1. Len(sizes) = n /\ sizes /= <<>>
  BY FunctionIsSeq
<1>2. CASE SumSeq(sizes) <= SinglePass
  <2>1. PICK all : all = [i \in 1..n |-> i]
    OBVIOUS
  <2>2. Plan(sizes) = <<all>>
    BY <1>1, <1>2, <2>1 DEF Plan
  <2>3. all \in Seq(1..n)
    BY <2>1, FunctionIsSeq
  <2>4. PICK parts : parts = <<all>>
    OBVIOUS
  <2>5. parts \in Seq(Seq(1..n)) /\ Len(parts) = 1 /\ parts[1] = all
    BY <2>3, <2>4
  <2>6. PICK c : c = [p \in 0..1 |-> IF p = 0 THEN 0 ELSE n]
    OBVIOUS
  <2>7. all = Piece(0, n)
    BY <2>1 DEF Piece
  <2>8. c[0] = 0 /\ c[1] = n /\ \A p \in 0..1 : p = 0 \/ p = 1
    BY <2>6
  <2>9. \A p \in 1..1 : p = 1 /\ p - 1 = 0
    OBVIOUS
  <2>10. Cuts(c, parts, n)
    BY <2>5, <2>7, <2>8, <2>9 DEF Cuts
  <2> QED
    BY <1>2, <2>2, <2>4, <2>5, <2>10
<1>3. CASE ~(SumSeq(sizes) <= SinglePass)
  <2>1. PICK h : /\ \A k \in 0..n : h[k] \in Seq(Seq(1..n)) \ {<<>>}
                 /\ h[0] = <<<<>>>> /\ h[n] = Plan(sizes)
                 /\ \A k \in 1..n : h[k] = Grown(sizes, h[k - 1], k)
    BY <1>3, PlanSteps
  <2> DEFINE Good(k) == (\E c : Cuts(c, h[k], k)) /\ Fits(sizes, h[k])
             T == {k \in Nat : k \in 0..n => Good(k)}
  <2>2. Good(0)
    <3>1. PICK none, parts : none = <<>> /\ parts = <<none>> /\ parts = h[0]
      BY <2>1
    <3>2. Len(parts) = 1 /\ parts[1] = none /\ \A p \in 1..1 : p = 1
      BY <3>1
    <3>3. PICK c : c = [p \in 0..1 |-> 0]
      OBVIOUS
    <3>4. Piece(0, 0) = none
      BY <3>1, NoPiece
    <3>5. Cuts(c, parts, 0)
      <4>1. c[0] = 0 /\ c[1] = 0 /\ \A p \in 0..1 : c[p] = 0
        BY <3>3
      <4>2. \A p \in 1..1 : parts[p] = Piece(c[p - 1], c[p])
        BY <3>2, <3>4, <4>1
      <4> QED
        BY <3>2, <4>1, <4>2 DEF Cuts
    <3>6. Fits(sizes, parts)
      <4>1. PICK s : s = [k \in 1..Len(none) |-> sizes[none[k]]]
        OBVIOUS
      <4>2. Len(none) = 0 /\ 1..0 = {}
        BY <3>1
      <4>3. 0 \in 0..1 /\ s \in [1..0 -> Nat]
        BY <4>1, <4>2
      <4>4. SumSeq(s) = 0
        BY <4>3, SumSeqSmall
      <4>5. PartSize(sizes, none) = 0
        BY <4>1, <4>4 DEF PartSize
      <4> QED
        BY <3>2, <4>5, ReplyingAssumption DEF Fits
    <3> QED
      BY <3>1, <3>5, <3>6
  <2>3. ASSUME NEW k \in Nat, k + 1 \in 1..n, Good(k) PROVE Good(k + 1)
    <3>1. k \in 0..n /\ (k + 1) - 1 = k
      BY <2>3
    <3>2. PICK parts : parts = h[k] /\ parts \in Seq(Seq(1..n)) /\ parts /= <<>>
      BY <2>1, <3>1
    <3>3. h[k + 1] = Grown(sizes, parts, k + 1)
      BY <2>1, <2>3, <3>1, <3>2
    <3>4. PICK c : Cuts(c, parts, k)
      BY <2>3, <3>2
    <3>5. Fits(sizes, parts)
      BY <2>3, <3>2
    <3>6. PICK last \in Seq(1..n) : last = Last(parts)
      BY <3>2 DEF Last
    <3>7. PartSize(sizes, last) \in Nat /\ sizes[k + 1] \in Nat /\ PartChars \in Nat
      <4>1. PICK m \in Nat : m = Len(last)
        OBVIOUS
      <4>2. PICK s : s = [j \in 1..m |-> sizes[last[j]]]
        OBVIOUS
      <4>3. s \in [1..m -> Nat]
        BY <4>1, <4>2
      <4>4. \A j \in 1..m : s[j] <= s[j]
        BY <4>3
      <4>5. SumSeq(s) \in Nat
        BY <4>3, <4>4, SumSeqCompare
      <4> QED
        BY <2>3, <4>1, <4>2, <4>5, ReplyingAssumption DEF PartSize
    <3>8. CASE last /= <<>> /\ PartSize(sizes, last) + sizes[k + 1] > PartChars
      <4>1. h[k + 1] = Append(parts, <<k + 1>>)
        BY <3>3, <3>6, <3>8 DEF Grown
      <4>2. k > 0
        <5>1. PICK m \in Nat : m = Len(parts) /\ m \in 1..m /\ last = parts[m]
          BY <3>2, <3>6 DEF Last
        <5>2. CASE k = 0
          <6>1. m - 1 \in 0..m /\ m \in 0..m /\ \A x \in 0..k : x = 0
            BY <5>1, <5>2
          <6>2. c[m - 1] = 0 /\ c[m] = 0 /\ parts[m] = Piece(c[m - 1], c[m])
            BY <3>4, <5>1, <6>1 DEF Cuts
          <6> QED
            BY <3>8, <5>1, <6>2, NoPiece
        <5> QED
          BY <5>2
      <4> QED
        BY <3>2, <3>4, <3>5, <4>1, <4>2, NewPart
    <3>9. CASE ~(last /= <<>> /\ PartSize(sizes, last) + sizes[k + 1] > PartChars)
      <4>1. h[k + 1] = Append(Front(parts), Append(Last(parts), k + 1))
        BY <3>3, <3>6, <3>9 DEF Grown
      <4>2. last = <<>> \/ PartSize(sizes, last) + sizes[k + 1] <= PartChars
        BY <3>7, <3>9
      <4> QED
        BY <2>3, <3>2, <3>4, <3>5, <3>6, <4>1, <4>2, SamePart
    <3> QED
      BY <3>8, <3>9
  <2> HIDE DEF Good
  <2>4. \A k \in Nat : k \in T
    <3>1. 0 \in T
      BY <2>2
    <3>2. ASSUME NEW k \in Nat, k \in T PROVE k + 1 \in T
      <4> SUFFICES ASSUME k + 1 \in 0..n PROVE Good(k + 1)
        OBVIOUS
      <4>1. k \in 0..n /\ k + 1 \in 1..n
        OBVIOUS
      <4> QED
        BY <2>3, <3>2, <4>1
    <3> HIDE DEF T
    <3> QED
      BY <3>1, <3>2, NumberInduction
  <2>5. Good(n)
    BY <2>4
  <2> QED
    BY <2>1, <2>5 DEF Good
<1> QED
  BY <1>2, <1>3


\* Pieces join.
LEMMA PiecesJoin ==
    ASSUME NEW a \in Nat, NEW b \in Nat, a <= b
    PROVE  Piece(0, a) \o Piece(a, b) = Piece(0, b)
<1>1. PICK s, t, u : s = Piece(0, a) /\ t = Piece(a, b) /\ u = Piece(0, b)
  OBVIOUS
<1>2. s \in Seq(Nat) /\ Len(s) = a /\ \A j \in 1..a : s[j] = j
  <2>1. PICK z \in Nat : z = 0 /\ z <= a /\ a - z = a
    OBVIOUS
  <2>2. /\ Piece(z, a) \in Seq(Nat) /\ Len(Piece(z, a)) = a
        /\ \A j \in 1..a : Piece(z, a)[j] = z + j
    BY <2>1, PieceGrows
  <2> QED
    BY <1>1, <2>1, <2>2
<1>3. u \in Seq(Nat) /\ Len(u) = b /\ \A j \in 1..b : u[j] = j
  <2>1. PICK z \in Nat : z = 0 /\ z <= b /\ b - z = b
    OBVIOUS
  <2>2. /\ Piece(z, b) \in Seq(Nat) /\ Len(Piece(z, b)) = b
        /\ \A j \in 1..b : Piece(z, b)[j] = z + j
    BY <2>1, PieceGrows
  <2> QED
    BY <1>1, <2>1, <2>2
<1>4. t \in Seq(Nat) /\ Len(t) = b - a /\ \A j \in 1..(b - a) : t[j] = a + j
  BY <1>1, PieceGrows
<1>5. PICK v : v = s \o t
  OBVIOUS
<1>6. v \in Seq(Nat) /\ Len(v) = b
  BY <1>2, <1>4, <1>5
<1>7. \A j \in 1..b : v[j] = u[j]
  <2> SUFFICES ASSUME NEW j \in 1..b PROVE v[j] = u[j]
    OBVIOUS
  <2>1. CASE j <= a
    <3>1. j \in 1..a
      BY <2>1
    <3>2. v[j] = s[j]
      BY <1>2, <1>4, <1>5, <3>1
    <3> QED
      BY <1>2, <1>3, <3>1, <3>2
  <2>2. CASE j > a
    <3>1. PICK i \in 1..(b - a) : j = a + i
      BY <2>2
    <3>2. v[j] = t[i]
      BY <1>2, <1>4, <1>5, <3>1
    <3> QED
      BY <1>3, <1>4, <3>1, <3>2
  <2> QED
    BY <2>1, <2>2
<1> QED
  BY <1>1, <1>3, <1>5, <1>6, <1>7, SeqEqual

\* The parts, end to end, are the chunks from 1 to k.
LEMMA CutsFlatten ==
    ASSUME NEW n \in Nat, NEW parts, parts \in Seq(Seq(1..n)),
           NEW k \in Nat, NEW c, Cuts(c, parts, k)
    PROVE  FlattenSeq(parts) = Piece(0, k)
<1>1. PICK m \in Nat : m = Len(parts)
  OBVIOUS
<1>2. PICK h : Joins(h, parts, 1..n)
  BY FlattenJoins
<1>4. /\ h[0] = <<>> /\ h[m] = FlattenSeq(parts)
      /\ \A p \in 1..m : h[p] = h[p - 1] \o parts[p]
  BY <1>1, <1>2 DEF Joins
<1>5. /\ c[0] = 0 /\ c[m] = k
      /\ \A p \in 0..m : c[p] \in 0..k
      /\ \A p \in 1..m : parts[p] = Piece(c[p - 1], c[p])
      /\ \A p, q \in 0..m : p < q => c[p] <= c[q]
  BY <1>1 DEF Cuts
<1> DEFINE T == {p \in Nat : p \in 0..m => h[p] = Piece(0, c[p])}
<1>6. 0 \in T
  BY <1>4, <1>5, NoPiece
<1>7. ASSUME NEW p \in Nat, p \in T PROVE p + 1 \in T
  <2> SUFFICES ASSUME p + 1 \in 0..m PROVE h[p + 1] = Piece(0, c[p + 1])
    OBVIOUS
  <2>1. PICK q \in 1..m : q = p + 1 /\ q - 1 = p /\ p \in 0..m /\ q \in 0..m /\ p < q
    OBVIOUS
  <2>2. PICK a \in Nat, b \in Nat : a = c[p] /\ b = c[q] /\ a <= b
    <3>1. c[p] \in 0..k /\ c[q] \in 0..k /\ c[p] <= c[q]
      BY <1>5, <2>1
    <3> QED
      BY <3>1
  <2>3. h[p] = Piece(0, a)
    BY <1>7, <2>1, <2>2
  <2>4. h[q] = h[p] \o parts[q] /\ parts[q] = Piece(a, b)
    BY <1>4, <1>5, <2>1, <2>2
  <2>5. Piece(0, a) \o Piece(a, b) = Piece(0, b)
    BY <2>2, PiecesJoin
  <2> QED
    BY <2>1, <2>2, <2>3, <2>4, <2>5
<1>8. h[m] = Piece(0, c[m])
  <2>1. \A p \in Nat : p \in T
    <3> HIDE DEF T
    <3> QED
      BY <1>6, <1>7, NumberInduction
  <2>2. m \in T /\ m \in 0..m
    BY <2>1
  <2> QED
    BY <2>2
<1> QED
  BY <1>4, <1>5, <1>8

\* The first q parts hold the chunks up to the q-th cut.
LEMMA CutsCover ==
    ASSUME NEW n \in Nat, NEW parts, parts \in Seq(Seq(1..n)),
           NEW k \in Nat, NEW c, Cuts(c, parts, k), NEW q \in 0..Len(parts)
    PROVE  UNION {ToSet(parts[i]) : i \in 1..q} = 1..c[q]
<1>1. PICK m \in Nat : m = Len(parts)
  OBVIOUS
<1>2. /\ c[0] = 0 /\ c[m] = k
      /\ \A p \in 0..m : c[p] \in 0..k
      /\ \A p \in 1..m : parts[p] = Piece(c[p - 1], c[p])
      /\ \A p, r \in 0..m : p < r => c[p] <= c[r]
  BY <1>1 DEF Cuts
<1>3. ASSUME NEW p \in 1..m PROVE ToSet(parts[p]) = (c[p - 1] + 1)..c[p]
  <2>1. p \in 0..m /\ p - 1 \in 0..m /\ p - 1 < p
    OBVIOUS
  <2>2. PICK a \in Nat, b \in Nat : a = c[p - 1] /\ b = c[p] /\ a <= b
    <3>1. c[p - 1] \in 0..k /\ c[p] \in 0..k /\ c[p - 1] <= c[p]
      BY <1>2, <2>1
    <3> QED
      BY <3>1
  <2>3. parts[p] = [j \in 1..(b - a) |-> a + j]
    BY <1>2, <2>2 DEF Piece
  <2>4. ToSet(parts[p]) = {a + j : j \in 1..(b - a)}
    BY <2>3 DEF ToSet
  <2>5. {a + j : j \in 1..(b - a)} = (a + 1)..b
    <3>1. \A j \in 1..(b - a) : a + j \in (a + 1)..b
      BY <2>2, SMTT(40)
    <3>2. \A x \in (a + 1)..b : x - a \in 1..(b - a) /\ a + (x - a) = x
      BY <2>2, SMTT(40)
    <3> QED
      BY <3>1, <3>2
  <2> QED
    BY <2>2, <2>4, <2>5
<1> DEFINE Gone(r) == UNION {ToSet(parts[i]) : i \in 1..r}
           T == {r \in Nat : r \in 0..m => Gone(r) = 1..c[r]}
<1>4. 0 \in T
  <2>1. 1..0 = {}
    OBVIOUS
  <2> QED
    BY <1>2, <2>1
<1>5. ASSUME NEW r \in Nat, r \in T PROVE r + 1 \in T
  <2> SUFFICES ASSUME r + 1 \in 0..m PROVE Gone(r + 1) = 1..c[r + 1]
    OBVIOUS
  <2>1. PICK p \in 1..m : p = r + 1 /\ p - 1 = r /\ p \in 0..m /\ r \in 0..m /\ r < p
    OBVIOUS
  <2>2. 1..p = (1..r) \cup {p}
    BY <2>1
  <2>3. Gone(p) = Gone(r) \cup ToSet(parts[p])
    BY <2>2
  <2>4. Gone(r) = 1..c[r] /\ ToSet(parts[p]) = (c[r] + 1)..c[p]
    BY <1>3, <1>5, <2>1
  <2>5. c[r] \in 0..k /\ c[p] \in 0..k /\ c[r] <= c[p]
    BY <1>2, <2>1
  <2>6. (1..c[r]) \cup ((c[r] + 1)..c[p]) = 1..c[p]
    <3>1. PICK a \in Nat, b \in Nat : a = c[r] /\ b = c[p] /\ a <= b
      BY <2>5
    <3>2. (1..a) \cup ((a + 1)..b) = 1..b
      BY <3>1
    <3> QED
      BY <3>1, <3>2
  <2> HIDE DEF Gone
  <2> QED
    BY <2>1, <2>3, <2>4, <2>6
<1>6. q \in T
  <2>1. \A r \in Nat : r \in T
    <3> HIDE DEF T
    <3> QED
      BY <1>4, <1>5, NumberInduction
  <2> QED
    BY <2>1
<1> QED
  BY <1>1, <1>6

\* What is read of a text is all of it unless the plan has too many parts; the
\* plan holds every chunk once, in order, and keeps to the size of a part.
LEMMA PlanHolds ==
    ASSUME lengths \in Seq(Nat \ {0}), lengths /= <<>>
    PROVE  /\ Covered = SumSeq(lengths) <=> Len(Plan(lengths)) <= MaxBatches
           /\ FlattenSeq(Plan(lengths)) = [i \in 1..Len(lengths) |-> i]
           /\ \/ SumSeq(lengths) <= SinglePass /\ Len(Plan(lengths)) = 1
              \/ Fits(lengths, Plan(lengths))
<1>1. PICK n \in Nat : n = Len(lengths) /\ n > 0
                       /\ lengths \in [1..n -> Nat \ {0}]
  OBVIOUS
<1>2. lengths \in [1..n -> Nat]
  BY <1>1
<1>3. PICK parts : parts = Plan(lengths)
  OBVIOUS
<1>4. /\ parts \in Seq(Seq(1..n)) /\ \E c : Cuts(c, parts, n)
      /\ \/ SumSeq(lengths) <= SinglePass /\ Len(parts) = 1
         \/ Fits(lengths, parts)
  <2>1. PICK sizes : sizes = lengths
    OBVIOUS
  <2>2. sizes \in [1..n -> Nat]
    BY <1>2, <2>1
  <2> QED
    BY <1>1, <1>3, <2>1, <2>2, PlanCuts
<1>5. PICK c : Cuts(c, parts, n)
  BY <1>4
<1>6. PICK m \in Nat : m = Len(parts)
  BY <1>4
<1>7. FlattenSeq(parts) = [i \in 1..Len(lengths) |-> i]
  <2>1. FlattenSeq(parts) = Piece(0, n)
    BY <1>4, <1>5, CutsFlatten
  <2>2. \A j \in 1..n : 0 + j = j
    OBVIOUS
  <2>3. n - 0 = n
    OBVIOUS
  <2> QED
    BY <1>1, <2>1, <2>2, <2>3 DEF Piece
<1>8. PICK q \in 0..m : q = Parts /\ (q = m <=> m <= MaxBatches)
  <2>1. MaxBatches \in Nat
    BY ReplyingAssumption
  <2> QED
    BY <1>3, <1>6, <2>1 DEF Parts, PartsOfChunks, AtMost
<1>9. /\ c[m] = n /\ \A p \in 0..m : c[p] \in 0..n
      /\ \A p, r \in 0..m : p < r => c[p] <= c[r]
      /\ \A p \in 1..m : c[p - 1] < c[p]
  BY <1>1, <1>5, <1>6 DEF Cuts
<1>10. Read = 1..c[q]
  <2>1. UNION {ToSet(parts[i]) : i \in 1..q} = 1..c[q]
    <3>1. q \in 0..Len(parts)
      BY <1>6
    <3> QED
      BY <1>4, <1>5, <3>1, CutsCover
  <2> QED
    BY <1>3, <1>8, <2>1 DEF Read
<1>11. c[q] = n <=> q = m
  <2>1. ASSUME q < m PROVE c[q] < n
    <3>1. PICK r \in 1..m : r = q + 1 /\ r - 1 = q /\ r \in 0..m
      BY <2>1
    <3>2. c[q] < c[r] /\ c[r] \in 0..n /\ c[q] \in 0..n
      BY <1>9, <3>1
    <3> QED
      BY <3>2
  <2> QED
    BY <1>9, <2>1
<1>12. PICK s : s = [i \in 1..n |-> IF i \in Read THEN lengths[i] ELSE 0]
  OBVIOUS
<1>13. s \in [1..n -> Nat] /\ Covered = SumSeq(s)
  BY <1>1, <1>2, <1>12 DEF Covered
<1>14. \A k \in 1..n : s[k] <= lengths[k] /\ (s[k] = lengths[k] <=> k <= c[q])
  <2> SUFFICES ASSUME NEW k \in 1..n
               PROVE  s[k] <= lengths[k] /\ (s[k] = lengths[k] <=> k <= c[q])
    OBVIOUS
  <2>1. lengths[k] \in Nat /\ lengths[k] > 0
    BY <1>1
  <2>2. s[k] = IF k \in 1..c[q] THEN lengths[k] ELSE 0
    BY <1>10, <1>12
  <2>3. c[q] \in Nat
    BY <1>9
  <2> QED
    BY <2>1, <2>2, <2>3
<1>15. Covered = SumSeq(lengths) <=> c[q] = n
  <2>1. PICK t : t = lengths
    OBVIOUS
  <2>2. t \in [1..n -> Nat] /\ \A k \in 1..n : s[k] <= t[k]
    BY <1>2, <1>14, <2>1
  <2>3. SumSeq(s) = SumSeq(t) <=> \A k \in 1..n : s[k] = t[k]
    BY <1>13, <2>2, SumSeqCompare
  <2>4. (\A k \in 1..n : k <= c[q]) <=> c[q] = n
    <3>1. c[q] \in 0..n /\ n \in 1..n
      BY <1>1, <1>9
    <3> QED
      BY <3>1
  <2> QED
    BY <1>13, <1>14, <2>1, <2>3, <2>4
<1> QED
  BY <1>3, <1>4, <1>6, <1>7, <1>8, <1>11, <1>15

-----------------------------------------------------------------------------
(* The sources of a summary, and its price.                                *)

\* h[k] is what Only keeps of the first k members.
Keeps(h, s, S, X) ==
    /\ \A k \in 0..Len(s) : h[k] \in Seq(X \cap S)
    /\ h[0] = <<>> /\ h[Len(s)] = Only(s, S)
    /\ \A k \in 1..Len(s) :
          h[k] = IF s[k] \in S THEN Append(h[k - 1], s[k]) ELSE h[k - 1]

\* Only goes through the sequence and takes what is in the set.
LEMMA OnlySteps ==
    ASSUME NEW X, NEW S, NEW s, s \in Seq(X)
    PROVE  \E h : Keeps(h, s, S, X)
<1>0. PICK r : r = s
  OBVIOUS
<1>1. PICK n \in Nat : n = Len(s) /\ DOMAIN r = 1..n
                       /\ \A k \in 1..n : r[k] \in X
  BY <1>0
<1>2. PICK A, empty : A = Seq(X \cap S) /\ empty = <<>>
  OBVIOUS
<1> DEFINE F(a, c) == IF c \in S THEN Append(a, c) ELSE a
           Folds(g) == g = [d \in SUBSET DOMAIN r |->
                IF d = {} THEN <<>> ELSE F(g[d \ {Max(d)}], r[Max(d)])]
           step == [p \in A \X (1..n) |-> F(p[1], r[p[2]])]
<1>3. Only(s, S) = (CHOOSE g : Folds(g))[DOMAIN r]
  BY <1>0 DEF Only, FoldLeft, MapThenFoldSet
<1>4. \A a \in A, k \in 1..n : F(a, r[k]) \in A
  <2> SUFFICES ASSUME NEW a \in A, NEW k \in 1..n, r[k] \in S
               PROVE  Append(a, r[k]) \in A
    OBVIOUS
  <2>1. PICK c \in X \cap S : c = r[k]
    BY <1>1
  <2>2. Append(a, c) \in Seq(X \cap S)
    BY <1>2
  <2> QED
    BY <1>2, <2>1, <2>2
<1> HIDE DEF F
<1>5. \A a \in A, k \in 1..n : step[<<a, k>>] = F(a, r[k])
  OBVIOUS
<1> HIDE DEF step
<1>6. StaysIn(A, step, n) /\ empty \in A
  <2>1. \A a \in A, k \in 1..n : step[<<a, k>>] \in A
    BY <1>4, <1>5
  <2>2. empty \in A
    BY <1>2
  <2> QED
    BY <2>1, <2>2 DEF StaysIn
<1>7. \A d \in SUBSET (1..n) : d /= {} => Max(d) \in 1..n /\ d \ {Max(d)} \in SUBSET (1..n)
  BY LastPosition
<1>8. \E g : Folds(g)
  <2>1. PICK g \in [SUBSET (1..n) -> A] : Follows(g, empty, step, n)
    BY <1>6, FoldExists
  <2>2. \A d \in SUBSET (1..n) :
            g[d] = IF d = {} THEN <<>> ELSE F(g[d \ {Max(d)}], r[Max(d)])
    BY <1>2, <1>5, <1>7, <2>1 DEF Follows
  <2>3. Folds(g)
    BY <1>1, <2>1, <2>2
  <2> QED
    BY <2>3
<1>9. PICK g : Folds(g) /\ Only(s, S) = g[1..n]
  <2> HIDE DEF Folds
  <2> QED
    BY <1>1, <1>3, <1>8, Zenon
<1>10. \A d \in SUBSET (1..n) :
          g[d] = IF d = {} THEN <<>> ELSE F(g[d \ {Max(d)}], r[Max(d)])
  BY <1>1, <1>9
<1>11. FollowsIn(A, g, empty, step, n)
  BY <1>2, <1>5, <1>7, <1>10 DEF FollowsIn
<1>12. PICK h : Steps(A, h, empty, step, n) /\ h[n] = g[1..n]
  BY <1>6, <1>11, FoldSteps
<1>13. /\ \A k \in 0..n : h[k] \in A
       /\ h[0] = <<>> /\ h[n] = Only(s, S)
  BY <1>2, <1>9, <1>12 DEF Steps
<1>14. ASSUME NEW k \in 1..n
       PROVE  h[k] = IF s[k] \in S THEN Append(h[k - 1], s[k]) ELSE h[k - 1]
  <2>1. h[k] = step[<<h[k - 1], k>>] /\ k - 1 \in 0..n
    BY <1>12 DEF Steps
  <2>2. h[k - 1] \in A
    BY <1>13, <2>1
  <2>3. h[k] = F(h[k - 1], r[k])
    BY <1>5, <2>1, <2>2
  <2> QED
    BY <1>0, <2>3 DEF F
<1> QED
  BY <1>1, <1>2, <1>13, <1>14 DEF Keeps

\* What Only keeps is in both sets.
LEMMA OnlyIn ==
    ASSUME NEW X, NEW S, NEW s, s \in Seq(X)
    PROVE  Only(s, S) \in Seq(X \cap S)
<1>1. PICK h : Keeps(h, s, S, X)
  BY OnlySteps
<1>2. Len(s) \in 0..Len(s)
  OBVIOUS
<1> QED
  BY <1>1, <1>2 DEF Keeps

\* The loop of the plan sees how many parts there are and how full the last is.
Loads(sizes, num, load) ==
    /\ \A k \in 0..Len(sizes) : num[k] \in Nat /\ load[k] \in Nat
    /\ num[0] = 1 /\ load[0] = 0 /\ num[Len(sizes)] = Len(Plan(sizes))
    /\ \A k \in 1..Len(sizes) :
          IF k > 1 /\ load[k - 1] + sizes[k] > PartChars
            THEN num[k] = num[k - 1] + 1 /\ load[k] = sizes[k]
            ELSE num[k] = num[k - 1] /\ load[k] = load[k - 1] + sizes[k]

\* The last of the parts so far, how many they are and how full it is, with
\* one more chunk.
LEMMA GrownLoads ==
    ASSUME NEW n \in Nat, NEW sizes \in [1..n -> Nat], NEW i \in 1..n,
           NEW parts \in Seq(Seq(1..n)), parts /= <<>>
    PROVE  LET more == Grown(sizes, parts, i) IN
           /\ Last(more) /= <<>>
           /\ IF /\ Last(parts) /= <<>>
                 /\ PartSize(sizes, Last(parts)) + sizes[i] > PartChars
                THEN /\ Len(more) = Len(parts) + 1
                     /\ PartSize(sizes, Last(more)) = sizes[i]
                ELSE /\ Len(more) = Len(parts)
                     /\ PartSize(sizes, Last(more)) =
                            PartSize(sizes, Last(parts)) + sizes[i]
<1>1. PICK D : D = Seq(1..n)
  OBVIOUS
<1>2. PICK last, front : last = Last(parts) /\ front = Front(parts)
  OBVIOUS
<1>3. /\ last \in D /\ front \in Seq(D) /\ Len(front) = Len(parts) - 1
      /\ Len(parts) \in Nat
  <2>1. PICK m \in Nat : m = Len(parts) /\ m > 0 /\ m \in 1..m
    OBVIOUS
  <2>2. parts \in Seq(D)
    BY <1>1
  <2>3. last = parts[m]
    BY <1>2, <2>1 DEF Last
  <2>4. last \in D
    BY <2>1, <2>2, <2>3
  <2>5. front \in Seq(D) /\ Len(front) = m - 1
    BY <1>2, <2>1, <2>2 DEF Front
  <2> QED
    BY <2>1, <2>4, <2>5
<1>4. PICK one, part : one = <<i>> /\ part = Append(last, i)
  OBVIOUS
<1>5. /\ one \in D /\ part \in D /\ one /= <<>> /\ part /= <<>>
  <2>1. last \in Seq(1..n)
    BY <1>1, <1>3
  <2>2. part \in D /\ part /= <<>>
    BY <1>1, <1>4, <2>1, AppendIn
  <2>3. one = Append(<<>>, i) /\ <<>> \in Seq(1..n)
    BY <1>4
  <2> QED
    BY <1>1, <2>2, <2>3, AppendIn
<1>6. PartSize(sizes, part) = PartSize(sizes, last) + sizes[i]
  <2>1. last \in Seq(1..n)
    BY <1>1, <1>3
  <2> QED
    BY <1>4, <2>1, PartSizeGrows
<1>7. PartSize(sizes, one) = sizes[i]
  <2>1. PICK s : s = [k \in 1..Len(one) |-> sizes[one[k]]]
    OBVIOUS
  <2>2. PICK m \in 0..1 : m = 1
    OBVIOUS
  <2>3. s \in [1..m -> Nat] /\ s[1] = sizes[i]
    BY <1>4, <2>1, <2>2
  <2>4. SumSeq(s) = s[1]
    BY <2>2, <2>3, SumSeqSmall
  <2> QED
    BY <2>1, <2>3, <2>4 DEF PartSize
<1>8. ASSUME NEW seq, seq \in Seq(D), NEW x, x \in D
      PROVE  Last(Append(seq, x)) = x /\ Len(Append(seq, x)) = Len(seq) + 1
  BY <1>8 DEF Last
<1>9. PICK more : more = Grown(sizes, parts, i)
  OBVIOUS
<1>10. CASE last /= <<>> /\ PartSize(sizes, last) + sizes[i] > PartChars
  <2>1. more = Append(parts, one)
    BY <1>2, <1>4, <1>9, <1>10 DEF Grown
  <2>2. Last(more) = one /\ Len(more) = Len(parts) + 1
    BY <1>1, <1>5, <1>8, <2>1
  <2> QED
    BY <1>2, <1>5, <1>7, <1>9, <1>10, <2>2
<1>11. CASE ~(last /= <<>> /\ PartSize(sizes, last) + sizes[i] > PartChars)
  <2>1. more = Append(front, part)
    BY <1>2, <1>4, <1>9, <1>11 DEF Grown
  <2>2. Last(more) = part /\ Len(more) = Len(front) + 1
    BY <1>3, <1>5, <1>8, <2>1
  <2>3. Len(more) = Len(parts)
    BY <1>3, <2>2
  <2> QED
    BY <1>2, <1>5, <1>6, <1>9, <1>11, <2>2, <2>3
<1> QED
  BY <1>10, <1>11

\* The plan of a text that is not read at once.
LEMMA PlanLoads ==
    ASSUME NEW n \in Nat, NEW sizes \in [1..n -> Nat],
           ~(SumSeq(sizes) <= SinglePass)
    PROVE  \E num, load : Loads(sizes, num, load)
<1>1. PICK h : /\ \A k \in 0..n : h[k] \in Seq(Seq(1..n)) \ {<<>>}
               /\ h[0] = <<<<>>>> /\ h[n] = Plan(sizes)
               /\ \A k \in 1..n : h[k] = Grown(sizes, h[k - 1], k)
  BY PlanSteps
<1>2. Len(sizes) = n
  BY FunctionIsSeq
<1>3. PICK num : num = [k \in 0..n |-> Len(h[k])]
  OBVIOUS
<1>4. PICK load : load = [k \in 0..n |-> PartSize(sizes, Last(h[k]))]
  OBVIOUS
<1>5. Last(h[0]) = <<>> /\ Len(h[0]) = 1
  BY <1>1 DEF Last
<1>6. PartSize(sizes, <<>>) = 0
  <2>1. PICK m \in 0..1 : m = 0
    OBVIOUS
  <2>2. PICK s : s = [k \in 1..Len(<<>>) |-> sizes[<<>>[k]]]
    OBVIOUS
  <2>3. s \in [1..m -> Nat]
    BY <2>1, <2>2
  <2>4. SumSeq(s) = 0
    BY <2>1, <2>3, SumSeqSmall
  <2> QED
    BY <2>2, <2>4 DEF PartSize
<1>7. ASSUME NEW k \in 1..n
      PROVE  /\ Last(h[k]) /= <<>>
             /\ IF /\ Last(h[k - 1]) /= <<>>
                   /\ load[k - 1] + sizes[k] > PartChars
                  THEN num[k] = num[k - 1] + 1 /\ load[k] = sizes[k]
                  ELSE num[k] = num[k - 1] /\ load[k] = load[k - 1] + sizes[k]
  <2>1. PICK j \in 0..n : j = k - 1
    OBVIOUS
  <2>2. h[j] \in Seq(Seq(1..n)) /\ h[j] /= <<>> /\ h[k] = Grown(sizes, h[j], k)
    BY <1>1, <2>1
  <2>3. /\ num[k] = Len(h[k]) /\ num[j] = Len(h[j])
        /\ load[k] = PartSize(sizes, Last(h[k]))
        /\ load[j] = PartSize(sizes, Last(h[j]))
    BY <1>3, <1>4
  <2>4. PICK parts : parts = h[j]
    OBVIOUS
  <2>5. PICK more : more = h[k]
    OBVIOUS
  <2>6. parts \in Seq(Seq(1..n)) /\ parts /= <<>>
    BY <2>2, <2>4
  <2>7. /\ Last(Grown(sizes, parts, k)) /= <<>>
        /\ IF /\ Last(parts) /= <<>>
              /\ PartSize(sizes, Last(parts)) + sizes[k] > PartChars
             THEN /\ Len(Grown(sizes, parts, k)) = Len(parts) + 1
                  /\ PartSize(sizes, Last(Grown(sizes, parts, k))) = sizes[k]
             ELSE /\ Len(Grown(sizes, parts, k)) = Len(parts)
                  /\ PartSize(sizes, Last(Grown(sizes, parts, k))) =
                         PartSize(sizes, Last(parts)) + sizes[k]
    BY <2>6, GrownLoads
  <2>8. more = Grown(sizes, parts, k)
    BY <2>2, <2>4, <2>5
  <2>9. /\ Last(more) /= <<>>
        /\ IF /\ Last(parts) /= <<>>
              /\ PartSize(sizes, Last(parts)) + sizes[k] > PartChars
             THEN /\ Len(more) = Len(parts) + 1
                  /\ PartSize(sizes, Last(more)) = sizes[k]
             ELSE /\ Len(more) = Len(parts)
                  /\ PartSize(sizes, Last(more)) =
                         PartSize(sizes, Last(parts)) + sizes[k]
    BY <2>7, <2>8
  <2>10. /\ num[k] = Len(more) /\ num[j] = Len(parts)
         /\ load[k] = PartSize(sizes, Last(more))
         /\ load[j] = PartSize(sizes, Last(parts))
    BY <2>3, <2>4, <2>5
  <2> QED
    BY <2>1, <2>4, <2>5, <2>9, <2>10
<1>8. \A k \in 1..n : Last(h[k - 1]) /= <<>> <=> k > 1
  <2> SUFFICES ASSUME NEW k \in 1..n PROVE Last(h[k - 1]) /= <<>> <=> k > 1
    OBVIOUS
  <2>1. CASE k = 1
    BY <1>5, <2>1
  <2>2. CASE k > 1
    <3>1. k - 1 \in 1..n
      BY <2>2
    <3> QED
      BY <1>7, <2>2, <3>1
  <2> QED
    BY <2>1, <2>2
<1>9. \A k \in 1..n :
          IF k > 1 /\ load[k - 1] + sizes[k] > PartChars
            THEN num[k] = num[k - 1] + 1 /\ load[k] = sizes[k]
            ELSE num[k] = num[k - 1] /\ load[k] = load[k - 1] + sizes[k]
  BY <1>7, <1>8
<1>10. num[0] = 1 /\ load[0] = 0 /\ num[n] = Len(Plan(sizes))
  <2>1. 0 \in 0..n /\ n \in 0..n
    OBVIOUS
  <2>2. num[0] = Len(h[0]) /\ num[n] = Len(h[n])
    BY <1>3, <2>1
  <2>3. load[0] = PartSize(sizes, Last(h[0]))
    BY <1>4, <2>1
  <2> QED
    BY <1>1, <1>5, <1>6, <2>2, <2>3
<1> DEFINE T == {k \in Nat : k \in 0..n => num[k] \in Nat /\ load[k] \in Nat}
<1>11. 0 \in T
  BY <1>10
<1>12. ASSUME NEW k \in Nat, k \in T PROVE k + 1 \in T
  <2> SUFFICES ASSUME k + 1 \in 0..n
               PROVE  num[k + 1] \in Nat /\ load[k + 1] \in Nat
    OBVIOUS
  <2>1. PICK j \in 1..n : j = k + 1 /\ j - 1 = k
    OBVIOUS
  <2>2. num[k] \in Nat /\ load[k] \in Nat /\ sizes[j] \in Nat
    BY <1>12
  <2>3. \/ num[j] = num[j - 1] + 1 /\ load[j] = sizes[j]
        \/ num[j] = num[j - 1] /\ load[j] = load[j - 1] + sizes[j]
    BY <1>9
  <2> QED
    BY <2>1, <2>2, <2>3
<1>13. \A k \in 0..n : num[k] \in Nat /\ load[k] \in Nat
  <2>1. \A k \in Nat : k \in T
    <3> HIDE DEF T
    <3> QED
      BY <1>11, <1>12, NumberInduction
  <2> QED
    BY <2>1
<1>14. Loads(sizes, num, load)
  <2> HIDE DEF T
  <2> QED
    BY <1>2, <1>9, <1>10, <1>13 DEF Loads
<1> QED
  BY <1>14

\* e says where the members of b stand in a, in their order.
Embeds(e, b, a) ==
    /\ e \in [1..Len(b) -> 1..Len(a)]
    /\ \A i, j \in 1..Len(b) : i < j => e[i] < e[j]
    /\ \A j \in 1..Len(b) : b[j] = a[e[j]]

\* What is left of a when some of it is left out.
LeftOf(b, a) == \E e : Embeds(e, b, a)

\* One walks through a and the other through what is left of it: if they are
\* in R before, if R stays when only the first goes on, and when both do, they
\* are in R behind.
LEMMA WalkAlong ==
    ASSUME NEW b, NEW a, NEW e, Embeds(e, b, a), Len(a) \in Nat, Len(b) \in Nat,
           NEW R, NEW f, NEW g, <<g[0], f[0]>> \in R,
           \A k \in 1..Len(a), j \in 0..Len(b) :
              <<g[j], f[k - 1]>> \in R => <<g[j], f[k]>> \in R,
           \A j \in 1..Len(b) :
              <<g[j - 1], f[e[j] - 1]>> \in R => <<g[j], f[e[j]]>> \in R
    PROVE  <<g[Len(b)], f[Len(a)]>> \in R
<1>1. PICK n \in Nat, m \in Nat : n = Len(a) /\ m = Len(b)
  OBVIOUS
<1>2. /\ e \in [1..m -> 1..n]
      /\ \A i, j \in 1..m : i < j => e[i] < e[j]
  BY <1>1 DEF Embeds
<1> DEFINE Between(j, k) == /\ j = 0 \/ (j > 0 /\ e[j] <= k)
                            /\ j < m => e[j + 1] > k
           T == {k \in Nat : k \in 0..n =>
                    \A j \in 0..m : Between(j, k) => <<g[j], f[k]>> \in R}
<1>3. 0 \in T
  <2> SUFFICES ASSUME NEW j \in 0..m, Between(j, 0) PROVE <<g[j], f[0]>> \in R
    OBVIOUS
  <2>1. j = 0
    <3> SUFFICES ASSUME j > 0 PROVE FALSE
      OBVIOUS
    <3>1. j \in 1..m /\ e[j] <= 0
      OBVIOUS
    <3>2. e[j] \in 1..n
      BY <1>2, <3>1
    <3> QED
      BY <3>1, <3>2
  <2> QED
    BY <2>1
<1>4. ASSUME NEW k \in Nat, k \in T PROVE k + 1 \in T
  <2> SUFFICES ASSUME k + 1 \in 0..n, NEW j \in 0..m, Between(j, k + 1)
               PROVE  <<g[j], f[k + 1]>> \in R
    OBVIOUS
  <2>1. k \in 0..n /\ k + 1 \in 1..n /\ (k + 1) - 1 = k
    OBVIOUS
  <2>2. CASE j > 0 /\ e[j] = k + 1
    <3>1. PICK i \in 0..m : i = j - 1 /\ i + 1 = j /\ j \in 1..m
      BY <2>2
    <3>2. Between(i, k)
      <4>1. i < m => e[i + 1] > k
        BY <2>2, <3>1
      <4>2. ASSUME i > 0 PROVE e[i] <= k
        <5>1. i \in 1..m /\ i < j
          BY <3>1, <4>2
        <5>2. e[i] < e[j] /\ e[i] \in 1..n
          BY <1>2, <3>1, <5>1
        <5> QED
          BY <2>2, <5>2
      <4> QED
        BY <4>1, <4>2
    <3>3. <<g[i], f[k]>> \in R
      BY <1>4, <2>1, <3>2
    <3>4. <<g[j - 1], f[e[j] - 1]>> \in R
      BY <2>1, <2>2, <3>1, <3>3
    <3> QED
      BY <1>1, <2>2, <3>1, <3>4
  <2>3. CASE ~(j > 0 /\ e[j] = k + 1)
    <3>1. Between(j, k)
      <4>1. ASSUME j > 0 PROVE e[j] <= k
        <5>1. e[j] \in 1..n /\ e[j] <= k + 1
          BY <1>2, <4>1
        <5> QED
          BY <2>3, <4>1, <5>1
      <4>2. ASSUME j < m PROVE e[j + 1] > k
        <5>1. j + 1 \in 1..m
          BY <4>2
        <5>2. e[j + 1] \in 1..n /\ e[j + 1] > k + 1
          BY <1>2, <4>2, <5>1
        <5> QED
          BY <5>2
      <4> QED
        BY <4>1, <4>2
    <3>2. <<g[j], f[k]>> \in R
      BY <1>4, <2>1, <3>1
    <3> QED
      BY <1>1, <2>1, <3>2
  <2> QED
    BY <2>2, <2>3
<1>5. n \in T
  <2> HIDE DEF T
  <2>1. \A k \in Nat : k \in T
    BY <1>3, <1>4, NumberInduction
  <2> QED
    BY <2>1
<1>6. Between(m, n)
  <2>1. ASSUME m > 0 PROVE e[m] <= n
    <3>1. m \in 1..m
      BY <2>1
    <3>2. e[m] \in 1..n
      BY <1>2, <3>1
    <3> QED
      BY <3>2
  <2> QED
    BY <2>1
<1>7. <<g[m], f[n]>> \in R
  <2>1. m \in 0..m /\ n \in 0..n
    OBVIOUS
  <2> HIDE DEF Between
  <2> QED
    BY <1>5, <1>6, <2>1
<1> QED
  BY <1>1, <1>7

\* What is left has no larger sum.
LEMMA LeftOfSum ==
    ASSUME NEW a, a \in Seq(Nat), NEW b, b \in Seq(Nat), LeftOf(b, a)
    PROVE  SumSeq(b) <= SumSeq(a)
<1>1. PICK n \in Nat : n = Len(a) /\ a \in [1..n -> Nat]
  BY SeqIsFunction
<1>2. PICK m \in Nat : m = Len(b) /\ b \in [1..m -> Nat]
  BY SeqIsFunction
<1>3. PICK e : Embeds(e, b, a)
  BY DEF LeftOf
<1>4. /\ e \in [1..m -> 1..n]
      /\ \A j \in 1..m : b[j] = a[e[j]]
  BY <1>1, <1>2, <1>3 DEF Embeds
<1>5. PICK f : /\ \A k \in 0..n : f[k] \in Nat
               /\ f[0] = 0 /\ f[n] = SumSeq(a)
               /\ \A k \in 1..n : f[k] = f[k - 1] + a[k]
  BY <1>1, SumSeqSteps
<1>6. PICK g : /\ \A k \in 0..m : g[k] \in Nat
               /\ g[0] = 0 /\ g[m] = SumSeq(b)
               /\ \A k \in 1..m : g[k] = g[k - 1] + b[k]
  BY <1>2, SumSeqSteps
<1>7. PICK R : R = {p \in Nat \X Nat : p[1] <= p[2]}
  OBVIOUS
<1>8. \A x, y \in Nat : <<x, y>> \in R <=> x <= y
  BY <1>7
<1>9. <<g[0], f[0]>> \in R
  BY <1>5, <1>6, <1>8
<1>10. ASSUME NEW k \in 1..n, NEW j \in 0..m, <<g[j], f[k - 1]>> \in R
       PROVE  <<g[j], f[k]>> \in R
  <2>1. k - 1 \in 0..n /\ k \in 0..n
    OBVIOUS
  <2>2. /\ g[j] \in Nat /\ f[k - 1] \in Nat /\ f[k] \in Nat /\ a[k] \in Nat
        /\ f[k] = f[k - 1] + a[k]
    BY <1>1, <1>5, <1>6, <2>1
  <2>3. g[j] <= f[k - 1]
    BY <1>8, <1>10, <2>2
  <2>4. g[j] <= f[k]
    BY <2>2, <2>3
  <2> QED
    BY <1>8, <2>2, <2>4
<1>11. ASSUME NEW j \in 1..m, <<g[j - 1], f[e[j] - 1]>> \in R
       PROVE  <<g[j], f[e[j]]>> \in R
  <2>1. PICK k \in 1..n : k = e[j] /\ a[k] = b[j]
    BY <1>4
  <2>2. j - 1 \in 0..m /\ j \in 0..m /\ k - 1 \in 0..n /\ k \in 0..n
    OBVIOUS
  <2>3. /\ g[j] \in Nat /\ f[k] \in Nat /\ g[j - 1] \in Nat /\ f[k - 1] \in Nat
        /\ b[j] \in Nat /\ g[j] = g[j - 1] + b[j] /\ f[k] = f[k - 1] + b[j]
    BY <1>2, <1>5, <1>6, <2>1, <2>2
  <2>4. g[j - 1] <= f[k - 1]
    BY <1>8, <1>11, <2>1, <2>3
  <2>5. g[j] <= f[k]
    BY <2>3, <2>4
  <2> QED
    BY <1>8, <2>1, <2>3, <2>5
<1>12. <<g[m], f[n]>> \in R
  BY <1>1, <1>2, <1>3, <1>9, <1>10, <1>11, WalkAlong
<1>13. g[m] \in Nat /\ f[n] \in Nat
  BY <1>5, <1>6
<1> QED
  BY <1>5, <1>6, <1>8, <1>12, <1>13

\* p is behind q: fewer parts, or as many and the last no fuller.
Behind(p, q) == p[1] < q[1] \/ (p[1] = q[1] /\ p[2] <= q[2])

\* Leaving chunks out never makes the greedy split longer.
LEMMA FewerParts ==
    ASSUME NEW a, a \in Seq(Nat \ {0}), a /= <<>>,
           NEW b, b \in Seq(Nat \ {0}), b /= <<>>, LeftOf(b, a)
    PROVE  /\ Len(Plan(a)) \in Nat /\ Len(Plan(b)) \in Nat
           /\ Len(Plan(b)) <= Len(Plan(a))
<1>1. PICK n \in Nat : n = Len(a) /\ a \in [1..n -> Nat] /\ a \in Seq(Nat)
  <2>1. a \in Seq(Nat)
    OBVIOUS
  <2> QED
    BY <2>1, SeqIsFunction
<1>2. PICK m \in Nat : m = Len(b) /\ b \in [1..m -> Nat] /\ b \in Seq(Nat)
  <2>1. b \in Seq(Nat)
    OBVIOUS
  <2> QED
    BY <2>1, SeqIsFunction
<1>3. SumSeq(a) \in Nat /\ SumSeq(b) \in Nat /\ SumSeq(b) <= SumSeq(a)
  <2>1. SumSeq(a) \in Nat /\ SumSeq(b) \in Nat
    <3>1. SumSeq(a) \in Nat
      <4>1. \A k \in 1..n : a[k] <= a[k]
        BY <1>1
      <4> QED
        BY <1>1, <4>1, SumSeqCompare
    <3>2. SumSeq(b) \in Nat
      <4>1. \A k \in 1..m : b[k] <= b[k]
        BY <1>2
      <4> QED
        BY <1>2, <4>1, SumSeqCompare
    <3> QED
      BY <3>1, <3>2
  <2> QED
    BY <1>1, <1>2, <2>1, LeftOfSum
<1>4. SinglePass \in Nat /\ PartChars \in Nat
  BY ReplyingAssumption
<1>5. ASSUME NEW s, s /= <<>>, SumSeq(s) <= SinglePass
      PROVE  Len(Plan(s)) = 1
  <2>1. PICK only : only = [i \in 1..Len(s) |-> i]
    OBVIOUS
  <2>2. Plan(s) = <<only>>
    BY <1>5, <2>1 DEF Plan
  <2> QED
    BY <2>2
<1>6. ASSUME ~(SumSeq(a) <= SinglePass)
      PROVE  Len(Plan(a)) \in Nat /\ Len(Plan(a)) >= 1
  <2>1. PICK h : /\ \A i \in 0..n : h[i] \in Seq(Seq(1..n)) \ {<<>>}
                 /\ h[0] = <<<<>>>> /\ h[n] = Plan(a)
                 /\ \A i \in 1..n : h[i] = Grown(a, h[i - 1], i)
    BY <1>1, <1>6, PlanSteps
  <2>2. PICK D : D = Seq(1..n)
    OBVIOUS
  <2>3. PICK plan : plan = Plan(a)
    OBVIOUS
  <2>4. n \in 0..n
    OBVIOUS
  <2>5. plan \in Seq(D) /\ plan /= <<>>
    BY <2>1, <2>2, <2>3, <2>4
  <2>6. Len(plan) \in Nat /\ Len(plan) >= 1
    BY <2>5
  <2> QED
    BY <2>3, <2>6
<1>7. CASE SumSeq(b) <= SinglePass
  <2>1. Len(Plan(b)) = 1
    BY <1>5, <1>7
  <2>2. Len(Plan(a)) \in Nat /\ Len(Plan(a)) >= 1
    <3>1. CASE SumSeq(a) <= SinglePass
      <4>1. Len(Plan(a)) = 1
        BY <1>5, <3>1
      <4> QED
        BY <4>1
    <3>2. CASE ~(SumSeq(a) <= SinglePass)
      BY <1>6, <3>2
    <3> QED
      BY <3>1, <3>2
  <2> QED
    BY <2>1, <2>2
<1>8. CASE ~(SumSeq(b) <= SinglePass)
  <2>1. ~(SumSeq(a) <= SinglePass)
    BY <1>3, <1>4, <1>8
  <2>2. PICK na, la : Loads(a, na, la)
    BY <1>1, <2>1, PlanLoads
  <2>3. PICK nb, lb : Loads(b, nb, lb)
    BY <1>2, <1>8, PlanLoads
  <2>4. PICK e : Embeds(e, b, a)
    BY DEF LeftOf
  <2>5. /\ e \in [1..m -> 1..n]
        /\ \A i, j \in 1..m : i < j => e[i] < e[j]
        /\ \A j \in 1..m : b[j] = a[e[j]]
    BY <1>1, <1>2, <2>4 DEF Embeds
  <2>6. PICK f, g : /\ f = [k \in 0..n |-> <<na[k], la[k]>>]
                    /\ g = [k \in 0..m |-> <<nb[k], lb[k]>>]
    OBVIOUS
  <2>7. PICK R : R = {p \in (Nat \X Nat) \X (Nat \X Nat) : Behind(p[1], p[2])}
    OBVIOUS
  <2>8. \A x, y, u, v \in Nat :
            <<<<x, y>>, <<u, v>>>> \in R <=> x < u \/ (x = u /\ y <= v)
    BY <2>7 DEF Behind
  <2>9. /\ \A k \in 0..n : na[k] \in Nat /\ la[k] \in Nat
        /\ na[0] = 1 /\ la[0] = 0 /\ na[n] = Len(Plan(a))
        /\ \A k \in 1..n :
              IF k > 1 /\ la[k - 1] + a[k] > PartChars
                THEN na[k] = na[k - 1] + 1 /\ la[k] = a[k]
                ELSE na[k] = na[k - 1] /\ la[k] = la[k - 1] + a[k]
    BY <1>1, <2>2 DEF Loads
  <2>10. /\ \A k \in 0..m : nb[k] \in Nat /\ lb[k] \in Nat
         /\ nb[0] = 1 /\ lb[0] = 0 /\ nb[m] = Len(Plan(b))
         /\ \A k \in 1..m :
               IF k > 1 /\ lb[k - 1] + b[k] > PartChars
                 THEN nb[k] = nb[k - 1] + 1 /\ lb[k] = b[k]
                 ELSE nb[k] = nb[k - 1] /\ lb[k] = lb[k - 1] + b[k]
    BY <1>2, <2>3 DEF Loads
  <2>11. \A k \in 0..n, j \in 0..m :
             <<g[j], f[k]>> \in R <=>
                 nb[j] < na[k] \/ (nb[j] = na[k] /\ lb[j] <= la[k])
    <3> SUFFICES ASSUME NEW k \in 0..n, NEW j \in 0..m
                 PROVE  <<g[j], f[k]>> \in R <=>
                            nb[j] < na[k] \/ (nb[j] = na[k] /\ lb[j] <= la[k])
      OBVIOUS
    <3>1. f[k] = <<na[k], la[k]>> /\ g[j] = <<nb[j], lb[j]>>
      BY <2>6
    <3>2. /\ na[k] \in Nat /\ la[k] \in Nat /\ nb[j] \in Nat /\ lb[j] \in Nat
      BY <2>9, <2>10
    <3> QED
      BY <2>8, <3>1, <3>2
  <2>12. <<g[0], f[0]>> \in R
    <3>1. 0 \in 0..n /\ 0 \in 0..m
      OBVIOUS
    <3> QED
      BY <2>9, <2>10, <2>11, <3>1
  <2>13. ASSUME NEW k \in 1..n, NEW j \in 0..m, <<g[j], f[k - 1]>> \in R
         PROVE  <<g[j], f[k]>> \in R
    <3>1. PICK i \in 0..n : i = k - 1 /\ k \in 0..n
      OBVIOUS
    <3>2. /\ na[k] \in Nat /\ la[k] \in Nat /\ na[i] \in Nat /\ la[i] \in Nat
          /\ nb[j] \in Nat /\ lb[j] \in Nat /\ a[k] \in Nat
      BY <1>1, <2>9, <2>10, <3>1
    <3>3. nb[j] < na[i] \/ (nb[j] = na[i] /\ lb[j] <= la[i])
      BY <2>11, <2>13, <3>1
    <3>4. \/ na[k] = na[i] + 1
          \/ na[k] = na[i] /\ la[k] = la[i] + a[k]
      BY <2>9, <3>1
    <3>5. nb[j] < na[k] \/ (nb[j] = na[k] /\ lb[j] <= la[k])
      <4>1. PICK u \in Nat, v \in Nat, x \in Nat, y \in Nat, w \in Nat,
                 z \in Nat, c \in Nat :
                /\ u = na[i] /\ v = la[i] /\ x = nb[j] /\ y = lb[j]
                /\ w = na[k] /\ z = la[k] /\ c = a[k]
        BY <3>2
      <4>2. /\ x < u \/ (x = u /\ y <= v)
            /\ w = u + 1 \/ (w = u /\ z = v + c)
        BY <3>3, <3>4, <4>1
      <4>3. x < w \/ (x = w /\ y <= z)
        BY <4>2
      <4> QED
        BY <4>1, <4>3
    <3> QED
      BY <2>11, <3>1, <3>5
  <2>14. ASSUME NEW j \in 1..m, <<g[j - 1], f[e[j] - 1]>> \in R
         PROVE  <<g[j], f[e[j]]>> \in R
    <3>1. PICK k \in 1..n : k = e[j] /\ a[k] = b[j]
      BY <2>5
    <3>2. PICK i \in 0..n, h \in 0..m : i = k - 1 /\ h = j - 1 /\ k \in 0..n
                                        /\ j \in 0..m
      OBVIOUS
    <3>3. j > 1 => k > 1
      <4> SUFFICES ASSUME j > 1 PROVE k > 1
        OBVIOUS
      <4>1. 1 \in 1..m /\ e[1] < e[j] /\ e[1] \in 1..n
        BY <2>5
      <4> QED
        BY <3>1, <4>1
    <3>4. /\ na[k] \in Nat /\ la[k] \in Nat /\ na[i] \in Nat /\ la[i] \in Nat
          /\ nb[j] \in Nat /\ lb[j] \in Nat /\ nb[h] \in Nat /\ lb[h] \in Nat
          /\ b[j] \in Nat
      BY <1>2, <2>9, <2>10, <3>2
    <3>5. nb[h] < na[i] \/ (nb[h] = na[i] /\ lb[h] <= la[i])
      BY <2>11, <2>14, <3>1, <3>2
    <3>6. IF k > 1 /\ la[i] + b[j] > PartChars
            THEN na[k] = na[i] + 1 /\ la[k] = b[j]
            ELSE na[k] = na[i] /\ la[k] = la[i] + b[j]
      BY <2>9, <3>1, <3>2
    <3>7. IF j > 1 /\ lb[h] + b[j] > PartChars
            THEN nb[j] = nb[h] + 1 /\ lb[j] = b[j]
            ELSE nb[j] = nb[h] /\ lb[j] = lb[h] + b[j]
      BY <2>10, <3>2
    <3>8. nb[j] < na[k] \/ (nb[j] = na[k] /\ lb[j] <= la[k])
      <4>1. PICK u \in Nat, v \in Nat, x \in Nat, y \in Nat, w \in Nat,
                 z \in Nat, p \in Nat, q \in Nat, c \in Nat :
                /\ u = na[i] /\ v = la[i] /\ x = nb[h] /\ y = lb[h]
                /\ w = na[k] /\ z = la[k] /\ p = nb[j] /\ q = lb[j]
                /\ c = b[j]
        BY <3>4
      <4>2. /\ x < u \/ (x = u /\ y <= v)
            /\ IF k > 1 /\ v + c > PartChars THEN w = u + 1 /\ z = c
               ELSE w = u /\ z = v + c
            /\ IF j > 1 /\ y + c > PartChars THEN p = x + 1 /\ q = c
               ELSE p = x /\ q = y + c
        BY <3>5, <3>6, <3>7, <4>1
      <4>3. p < w \/ (p = w /\ q <= z)
        BY <1>4, <3>3, <4>2
      <4> QED
        BY <4>1, <4>3
    <3> QED
      BY <2>11, <3>1, <3>2, <3>8
  <2>15. <<g[m], f[n]>> \in R
    BY <1>1, <1>2, <2>4, <2>12, <2>13, <2>14, WalkAlong
  <2>16. n \in 0..n /\ m \in 0..m
    OBVIOUS
  <2>17. /\ nb[m] < na[n] \/ (nb[m] = na[n] /\ lb[m] <= la[n])
         /\ nb[m] \in Nat /\ na[n] \in Nat
    BY <2>9, <2>10, <2>11, <2>15, <2>16
  <2> QED
    BY <2>9, <2>10, <2>17
<1> QED
  BY <1>7, <1>8

\* What is left stays left when more comes behind ...
LEMMA LeftOfMore ==
    ASSUME NEW E, NEW a, a \in Seq(E), NEW b, b \in Seq(E), NEW z, z \in Seq(E),
           LeftOf(b, a)
    PROVE  LeftOf(b, a \o z)
<1>1. PICK e : Embeds(e, b, a)
  BY DEF LeftOf
<1>2. PICK n \in Nat, m \in Nat, l \in Nat :
          n = Len(a) /\ m = Len(b) /\ l = Len(z)
  OBVIOUS
<1>3. PICK v : v = a \o z
  OBVIOUS
<1>4. Len(v) = n + l /\ \A i \in 1..n : v[i] = a[i]
  BY <1>2, <1>3
<1>5. /\ e \in [1..m -> 1..n]
      /\ \A i, j \in 1..m : i < j => e[i] < e[j]
      /\ \A j \in 1..m : b[j] = a[e[j]]
  BY <1>1, <1>2 DEF Embeds
<1>6. e \in [1..m -> 1..(n + l)] /\ \A j \in 1..m : b[j] = v[e[j]]
  <2>1. \A i \in 1..n : i \in 1..(n + l)
    OBVIOUS
  <2>2. \A j \in 1..m : e[j] \in 1..n
    BY <1>5
  <2>3. \A j \in 1..m : b[j] = v[e[j]]
    BY <1>4, <1>5, <2>2
  <2> QED
    BY <1>5, <2>1, <2>2, <2>3
<1>7. Embeds(e, b, v)
  BY <1>2, <1>4, <1>5, <1>6 DEF Embeds
<1> QED
  BY <1>3, <1>7 DEF LeftOf

\* ... and when the same comes behind both.
LEMMA LeftOfBoth ==
    ASSUME NEW E, NEW a, a \in Seq(E), NEW b, b \in Seq(E), NEW z, z \in Seq(E),
           LeftOf(b, a)
    PROVE  LeftOf(b \o z, a \o z)
<1>1. PICK e : Embeds(e, b, a)
  BY DEF LeftOf
<1>2. PICK n \in Nat, m \in Nat, l \in Nat :
          n = Len(a) /\ m = Len(b) /\ l = Len(z)
  OBVIOUS
<1>3. PICK v, w : v = a \o z /\ w = b \o z
  OBVIOUS
<1>4. /\ Len(v) = n + l /\ \A i \in 1..n : v[i] = a[i]
      /\ \A i \in 1..l : v[n + i] = z[i]
  BY <1>2, <1>3
<1>5. /\ Len(w) = m + l /\ \A i \in 1..m : w[i] = b[i]
      /\ \A i \in 1..l : w[m + i] = z[i]
  BY <1>2, <1>3
<1>6. /\ e \in [1..m -> 1..n]
      /\ \A i, j \in 1..m : i < j => e[i] < e[j]
      /\ \A j \in 1..m : b[j] = a[e[j]]
  BY <1>1, <1>2 DEF Embeds
<1>7. PICK d : d = [j \in 1..(m + l) |-> IF j <= m THEN e[j] ELSE n + (j - m)]
  OBVIOUS
<1>8. \A j \in 1..(m + l) :
          \/ j \in 1..m /\ d[j] = e[j] /\ e[j] \in 1..n
          \/ j > m /\ j - m \in 1..l /\ d[j] = n + (j - m) /\ m + (j - m) = j
  BY <1>6, <1>7
<1>9. d \in [1..(m + l) -> 1..(n + l)]
  <2>1. \A j \in 1..(m + l) : d[j] \in 1..(n + l)
    BY <1>8
  <2> QED
    BY <1>7, <2>1
<1>10. ASSUME NEW i \in 1..(m + l), NEW j \in 1..(m + l), i < j
       PROVE  d[i] < d[j]
  <2>1. CASE i \in 1..m /\ j \in 1..m
    BY <1>6, <1>7, <1>10, <2>1
  <2>2. CASE i \in 1..m /\ j > m
    <3>1. d[i] \in 1..n /\ d[j] = n + (j - m)
      BY <1>6, <1>7, <2>2
    <3> QED
      BY <2>2, <3>1
  <2>3. CASE i > m
    <3>1. d[i] = n + (i - m) /\ d[j] = n + (j - m)
      BY <1>7, <1>10, <2>3
    <3> QED
      BY <1>10, <3>1
  <2> QED
    BY <1>10, <2>1, <2>2, <2>3
<1>11. ASSUME NEW j \in 1..(m + l) PROVE w[j] = v[d[j]]
  <2>1. CASE j \in 1..m
    <3>1. PICK k \in 1..n : k = e[j] /\ b[j] = a[k]
      BY <1>6, <2>1
    <3>2. d[j] = k
      BY <1>7, <2>1, <3>1
    <3>3. v[k] = a[k] /\ w[j] = b[j]
      BY <1>4, <1>5, <2>1, <3>1
    <3> QED
      BY <3>1, <3>2, <3>3
  <2>2. CASE j > m
    <3>1. PICK i \in 1..l : i = j - m /\ m + i = j
      BY <2>2
    <3>2. d[j] = n + i
      BY <1>7, <2>2, <3>1
    <3>3. v[n + i] = z[i] /\ w[m + i] = z[i]
      BY <1>4, <1>5, <3>1
    <3> QED
      BY <3>1, <3>2, <3>3
  <2> QED
    BY <2>1, <2>2
<1>12. Embeds(d, w, v)
  BY <1>4, <1>5, <1>9, <1>10, <1>11 DEF Embeds
<1> QED
  BY <1>3, <1>12 DEF LeftOf

\* Of sequences put end to end is left what is left when some are left out.
LEMMA LeftOfFlat ==
    ASSUME NEW E, NEW a, a \in Seq(Seq(E)), NEW b, b \in Seq(Seq(E)),
           LeftOf(b, a)
    PROVE  LeftOf(FlattenSeq(b), FlattenSeq(a))
<1>1. PICK D : D = Seq(E)
  OBVIOUS
<1>2. a \in Seq(D) /\ b \in Seq(D)
  BY <1>1
<1>3. PICK n \in Nat : n = Len(a) /\ a \in [1..n -> D]
  BY <1>2, SeqIsFunction
<1>4. PICK m \in Nat : m = Len(b) /\ b \in [1..m -> D]
  BY <1>2, SeqIsFunction
<1>5. PICK e : Embeds(e, b, a)
  BY DEF LeftOf
<1>6. /\ e \in [1..m -> 1..n]
      /\ \A j \in 1..m : b[j] = a[e[j]]
  BY <1>3, <1>4, <1>5 DEF Embeds
<1>7. PICK f : Joins(f, a, E)
  BY FlattenJoins
<1>8. PICK g : Joins(g, b, E)
  BY FlattenJoins
<1>9. /\ \A k \in 0..n : f[k] \in D
      /\ f[0] = <<>> /\ f[n] = FlattenSeq(a)
      /\ \A k \in 1..n : f[k] = f[k - 1] \o a[k]
  BY <1>1, <1>3, <1>7 DEF Joins
<1>10. /\ \A k \in 0..m : g[k] \in D
       /\ g[0] = <<>> /\ g[m] = FlattenSeq(b)
       /\ \A k \in 1..m : g[k] = g[k - 1] \o b[k]
  BY <1>1, <1>4, <1>8 DEF Joins
<1>11. PICK R : R = {p \in D \X D : LeftOf(p[1], p[2])}
  OBVIOUS
<1>12. \A x, y \in D : <<x, y>> \in R <=> LeftOf(x, y)
  BY <1>11
<1>13. \A x, y, z \in D : LeftOf(x, y) => LeftOf(x, y \o z)
  BY <1>1, LeftOfMore
<1>14. \A x, y, z \in D : LeftOf(x, y) => LeftOf(x \o z, y \o z)
  BY <1>1, LeftOfBoth
<1>15. <<g[0], f[0]>> \in R
  <2>1. PICK none : none = <<>>
    OBVIOUS
  <2>2. none \in D /\ Len(none) = 0
    BY <1>1, <2>1
  <2>3. Embeds(none, none, none)
    <3>1. PICK zero \in 0..0 : zero = Len(none)
      BY <2>2
    <3>2. none \in [1..zero -> 1..zero]
      BY <2>1, <3>1
    <3> QED
      BY <3>1, <3>2 DEF Embeds
  <2>4. LeftOf(none, none)
    BY <2>3 DEF LeftOf
  <2> QED
    BY <1>9, <1>10, <1>12, <2>1, <2>2, <2>4
<1>16. ASSUME NEW k \in 1..n, NEW j \in 0..m, <<g[j], f[k - 1]>> \in R
       PROVE  <<g[j], f[k]>> \in R
  <2>1. k - 1 \in 0..n /\ k \in 0..n
    OBVIOUS
  <2>2. PICK x \in D, y \in D, z \in D, u \in D :
            /\ x = g[j] /\ y = f[k - 1] /\ z = a[k] /\ u = f[k]
    BY <1>3, <1>9, <1>10, <2>1
  <2>3. u = y \o z
    BY <1>9, <2>2
  <2>4. LeftOf(x, y)
    BY <1>12, <1>16, <2>2
  <2>5. LeftOf(x, u)
    BY <1>13, <2>3, <2>4
  <2> QED
    BY <1>12, <2>2, <2>5
<1>17. ASSUME NEW j \in 1..m, <<g[j - 1], f[e[j] - 1]>> \in R
       PROVE  <<g[j], f[e[j]]>> \in R
  <2>1. PICK k \in 1..n : k = e[j] /\ a[k] = b[j]
    BY <1>6
  <2>2. j - 1 \in 0..m /\ j \in 0..m /\ k - 1 \in 0..n /\ k \in 0..n
    OBVIOUS
  <2>3. PICK x \in D, y \in D, z \in D, u \in D, w \in D :
            /\ x = g[j - 1] /\ y = f[k - 1] /\ z = b[j] /\ u = f[k] /\ w = g[j]
    BY <1>4, <1>9, <1>10, <2>2
  <2>4. u = y \o z /\ w = x \o z
    BY <1>9, <1>10, <2>1, <2>3
  <2>5. LeftOf(x, y)
    BY <1>12, <1>17, <2>1, <2>3
  <2>6. LeftOf(w, u)
    BY <1>14, <2>4, <2>5
  <2> QED
    BY <1>12, <2>1, <2>3, <2>6
<1>18. <<g[m], f[n]>> \in R
  BY <1>3, <1>4, <1>5, <1>15, <1>16, <1>17, WalkAlong
<1>19. g[m] \in D /\ f[n] \in D
  <2>1. m \in 0..m /\ n \in 0..n
    OBVIOUS
  <2> QED
    BY <1>9, <1>10, <2>1
<1> QED
  BY <1>9, <1>10, <1>12, <1>18, <1>19

\* Numbers in their order.
Ascends(s) == \A i, j \in 1..Len(s) : i < j => s[i] < s[j]

\* Of two ascending sequences the one that has fewer members is what is left
\* of the other.
LEMMA AscendingLeft ==
    ASSUME NEW q, q \in Seq(Nat), Ascends(q), NEW p, p \in Seq(Nat), Ascends(p),
           ToSet(p) \subseteq ToSet(q)
    PROVE  LeftOf(p, q)
<1>1. PICK n \in Nat : n = Len(q) /\ q \in [1..n -> Nat]
  BY SeqIsFunction
<1>2. PICK m \in Nat : m = Len(p) /\ p \in [1..m -> Nat]
  BY SeqIsFunction
<1>3. \A j \in 1..m : \E k \in 1..n : q[k] = p[j]
  <2>1. ToSet(p) = {p[j] : j \in 1..m} /\ ToSet(q) = {q[k] : k \in 1..n}
    BY <1>1, <1>2 DEF ToSet
  <2> QED
    BY <2>1
<1>4. PICK e : e = [j \in 1..m |-> CHOOSE k \in 1..n : q[k] = p[j]]
  OBVIOUS
<1>5. \A j \in 1..m : e[j] \in 1..n /\ q[e[j]] = p[j]
  BY <1>3, <1>4
<1>6. e \in [1..m -> 1..n]
  BY <1>4, <1>5
<1>7. ASSUME NEW i \in 1..m, NEW j \in 1..m, i < j PROVE e[i] < e[j]
  <2> SUFFICES ASSUME ~(e[i] < e[j]) PROVE FALSE
    OBVIOUS
  <2>1. PICK x \in 1..n, y \in 1..n : x = e[i] /\ y = e[j] /\ q[x] = p[i]
                                      /\ q[y] = p[j]
    BY <1>5
  <2>2. q[y] <= q[x]
    <3>1. y < x \/ y = x
      BY <2>1
    <3>2. y < x => q[y] < q[x]
      BY <1>1 DEF Ascends
    <3>3. q[x] \in Nat /\ q[y] \in Nat
      BY <1>1
    <3> QED
      BY <3>1, <3>2, <3>3
  <2>3. p[i] < p[j] /\ p[i] \in Nat /\ p[j] \in Nat
    BY <1>2, <1>7 DEF Ascends
  <2> QED
    BY <2>1, <2>2, <2>3
<1>8. Embeds(e, p, q)
  BY <1>1, <1>2, <1>5, <1>6, <1>7 DEF Embeds
<1> QED
  BY <1>8 DEF LeftOf

\* The chunks of some sources, and of fewer of them.
LEMMA ChunksAre ==
    ASSUME shelf \in Shelves, NEW p, p \in Seq(1..Len(shelf)), p /= <<>>
    PROVE  ChunksOf(p) \in Seq(Nat \ {0}) /\ ChunksOf(p) /= <<>>
<1>1. PICK D : D = Seq(Nat \ {0})
  OBVIOUS
<1>2. PICK n \in Nat : n = Len(shelf) /\ \A i \in 1..n : shelf[i] \in D \ {<<>>}
  <2>1. shelf \in Seq(D \ {<<>>})
    BY <1>1, ReplyingAssumption
  <2> QED
    BY <2>1, SeqIsFunction
<1>3. PICK m \in Nat : m = Len(p) /\ m > 0 /\ p \in [1..m -> 1..n]
  <2>1. Len(p) \in Nat /\ Len(p) > 0
    OBVIOUS
  <2>2. p \in [1..Len(p) -> 1..n]
    BY <1>2
  <2> QED
    BY <2>1, <2>2
<1>4. PICK rows : rows = [k \in 1..Len(p) |-> shelf[p[k]]]
  OBVIOUS
<1>5. rows \in [1..m -> D] /\ \A k \in 1..m : rows[k] /= <<>>
  <2>1. \A k \in 1..m : shelf[p[k]] \in D \ {<<>>}
    BY <1>2, <1>3
  <2> QED
    BY <1>3, <1>4, <2>1
<1>6. rows \in Seq(D)
  BY <1>5, FunctionIsSeq
<1>7. rows \in Seq(Seq(Nat \ {0}))
  BY <1>1, <1>6
<1>8. PICK h : Joins(h, rows, Nat \ {0})
  BY <1>7, FlattenJoins
<1>9. Len(rows) = m
  BY <1>5, FunctionIsSeq
<1>10. /\ \A k \in 0..m : h[k] \in D
       /\ h[m] = ChunksOf(p)
       /\ \A k \in 1..m : h[k] = h[k - 1] \o rows[k]
  BY <1>1, <1>4, <1>8, <1>9 DEF Joins, ChunksOf
<1>11. h[m] \in D /\ h[m] /= <<>>
  <2>1. PICK i \in 0..m : i = m - 1 /\ m \in 1..m /\ m \in 0..m
    <3>1. m - 1 \in 0..m /\ m \in 1..m /\ m \in 0..m
      BY <1>3
    <3> QED
      BY <3>1
  <2>2. PICK x, y : x = h[i] /\ y = rows[m]
    OBVIOUS
  <2>3. x \in D /\ y \in D /\ y /= <<>> /\ h[m] = x \o y
    BY <1>5, <1>10, <2>1, <2>2
  <2>4. Len(x \o y) = Len(x) + Len(y) /\ Len(x) \in Nat /\ Len(y) \in Nat
    BY <1>1, <2>3
  <2>5. Len(y) > 0
    BY <1>1, <2>3
  <2>6. Len(h[m]) > 0 /\ Len(<<>>) = 0
    BY <2>3, <2>4, <2>5
  <2> QED
    BY <1>10, <2>1, <2>6
<1> QED
  BY <1>1, <1>10, <1>11

\* Fewer sources have fewer chunks.
LEMMA ChunksLeft ==
    ASSUME shelf \in Shelves, NEW p, p \in Seq(1..Len(shelf)),
           NEW q, q \in Seq(1..Len(shelf)), LeftOf(p, q)
    PROVE  LeftOf(ChunksOf(p), ChunksOf(q))
<1>1. PICK D : D = Seq(Nat \ {0})
  OBVIOUS
<1>2. PICK n \in Nat : n = Len(shelf) /\ \A i \in 1..n : shelf[i] \in D
  <2>1. shelf \in Seq(D \ {<<>>})
    BY <1>1, ReplyingAssumption
  <2> QED
    BY <2>1, SeqIsFunction
<1>3. ASSUME NEW s, s \in Seq(1..n)
      PROVE  /\ [k \in 1..Len(s) |-> shelf[s[k]]] \in Seq(D)
             /\ Len([k \in 1..Len(s) |-> shelf[s[k]]]) = Len(s)
  <2>1. PICK m \in Nat : m = Len(s) /\ s \in [1..m -> 1..n]
    BY <1>3, SeqIsFunction
  <2>2. PICK rows : rows = [k \in 1..Len(s) |-> shelf[s[k]]]
    OBVIOUS
  <2>3. rows \in [1..m -> D]
    BY <1>2, <2>1, <2>2
  <2>4. rows \in Seq(D) /\ Len(rows) = m
    BY <2>3, FunctionIsSeq
  <2> QED
    BY <2>1, <2>2, <2>4
<1>4. PICK b, a : /\ b = [k \in 1..Len(p) |-> shelf[p[k]]]
                  /\ a = [k \in 1..Len(q) |-> shelf[q[k]]]
  OBVIOUS
<1>5. p \in Seq(1..n) /\ q \in Seq(1..n)
  BY <1>2
<1>6. b \in Seq(D) /\ Len(b) = Len(p) /\ a \in Seq(D) /\ Len(a) = Len(q)
  BY <1>3, <1>4, <1>5
<1>7. PICK e : Embeds(e, p, q)
  BY DEF LeftOf
<1>8. PICK l \in Nat, m \in Nat : l = Len(q) /\ m = Len(p)
  BY <1>5
<1>9. /\ e \in [1..m -> 1..l]
      /\ \A i, j \in 1..m : i < j => e[i] < e[j]
      /\ \A j \in 1..m : p[j] = q[e[j]]
  BY <1>7, <1>8 DEF Embeds
<1>10. \A j \in 1..m : b[j] = a[e[j]]
  <2> SUFFICES ASSUME NEW j \in 1..m PROVE b[j] = a[e[j]]
    OBVIOUS
  <2>1. PICK k \in 1..l : k = e[j] /\ p[j] = q[k]
    BY <1>9
  <2>2. b[j] = shelf[p[j]] /\ a[k] = shelf[q[k]]
    BY <1>4, <1>8
  <2> QED
    BY <2>1, <2>2
<1>11. Embeds(e, b, a)
  BY <1>6, <1>8, <1>9, <1>10 DEF Embeds
<1>12. LeftOf(b, a)
  BY <1>11 DEF LeftOf
<1>13. b \in Seq(Seq(Nat \ {0})) /\ a \in Seq(Seq(Nat \ {0}))
  BY <1>1, <1>6
<1>14. LeftOf(FlattenSeq(b), FlattenSeq(a))
  BY <1>12, <1>13, LeftOfFlat
<1> QED
  BY <1>4, <1>14 DEF ChunksOf

\* Sources by their creation: all of them, each once, ascending.
LEMMA CreationAscends ==
    ASSUME Len(shelf) \in Nat, NEW S, S \subseteq 1..Len(shelf)
    PROVE  /\ ByCreation(S) \in Seq(1..Len(shelf)) /\ Ascends(ByCreation(S))
           /\ ToSet(ByCreation(S)) = S
<1>1. PICK n \in Nat : n = Len(shelf)
  OBVIOUS
<1>2. PICK all : all = [i \in 1..n |-> i]
  OBVIOUS
<1>3. all \in [1..n -> 1..n]
  BY <1>2
<1>4. all \in Seq(1..n) /\ Len(all) = n
  BY <1>3, FunctionIsSeq
<1>5. PICK X : X = 1..n
  OBVIOUS
<1>6. PICK h : Keeps(h, all, S, X)
  BY <1>4, <1>5, OnlySteps
<1>7. /\ \A k \in 0..n : h[k] \in Seq(X \cap S)
      /\ h[0] = <<>> /\ h[n] = ByCreation(S)
      /\ \A k \in 1..n : h[k] = IF k \in S THEN Append(h[k - 1], k)
                                ELSE h[k - 1]
  <2>1. \A k \in 1..n : all[k] = k
    BY <1>2
  <2>2. Only(all, S) = ByCreation(S)
    BY <1>1, <1>2 DEF ByCreation
  <2> QED
    BY <1>4, <1>6, <2>1, <2>2 DEF Keeps
<1>8. X \cap S = S
  BY <1>1, <1>5
<1>9. PICK D : D = Seq(S)
  OBVIOUS
<1>10. \A k \in 0..n : h[k] \in D
  BY <1>7, <1>8, <1>9
<1> DEFINE T == {k \in Nat : k \in 0..n =>
                    Ascends(h[k]) /\ ToSet(h[k]) = S \cap (1..k)}
<1>11. 0 \in T
  <2>1. PICK none : none = <<>>
    OBVIOUS
  <2>2. Len(none) = 0 /\ DOMAIN none = {}
    BY <2>1
  <2>3. ToSet(none) = {} /\ Ascends(none)
    BY <2>2 DEF ToSet, Ascends
  <2> QED
    BY <1>7, <2>1, <2>3
<1>12. ASSUME NEW k \in Nat, k \in T PROVE k + 1 \in T
  <2> SUFFICES ASSUME k + 1 \in 0..n
               PROVE  /\ Ascends(h[k + 1])
                      /\ ToSet(h[k + 1]) = S \cap (1..(k + 1))
    OBVIOUS
  <2>1. PICK j \in 1..n : j = k + 1 /\ k = j - 1 /\ k \in 0..n
    OBVIOUS
  <2>2. Ascends(h[k]) /\ ToSet(h[k]) = S \cap (1..k) /\ h[k] \in D
    BY <1>10, <1>12, <2>1
  <2>3. h[j] = IF j \in S THEN Append(h[k], j) ELSE h[k]
    BY <1>7, <2>1
  <2>4. CASE j \notin S
    <3>1. S \cap (1..j) = S \cap (1..k)
      BY <2>1, <2>4
    <3> QED
      BY <2>1, <2>2, <2>3, <2>4, <3>1
  <2>5. CASE j \in S
    <3>1. PICK s : s = h[k]
      OBVIOUS
    <3>2. PICK m \in Nat : m = Len(s) /\ s \in [1..m -> S]
      BY <1>9, <2>2, <3>1, SeqIsFunction
    <3>3. PICK t : t = Append(s, j)
      OBVIOUS
    <3>4. /\ Len(t) = m + 1 /\ t[m + 1] = j
          /\ \A i \in 1..m : t[i] = s[i]
          /\ DOMAIN t = 1..(m + 1)
      <4>1. s \in Seq(S) /\ j \in S
        BY <1>9, <2>2, <2>5, <3>1
      <4> QED
        BY <3>2, <3>3, <4>1
    <3>5. ToSet(s) = {s[i] : i \in 1..m} /\ ToSet(t) = {t[i] : i \in 1..(m + 1)}
      BY <3>2, <3>4 DEF ToSet
    <3>6. \A i \in 1..m : s[i] \in 1..k
      BY <2>2, <3>1, <3>5
    <3>7. ASSUME NEW x \in 1..(m + 1), NEW y \in 1..(m + 1), x < y
          PROVE  t[x] < t[y]
      <4>1. x \in 1..m
        BY <3>7
      <4>2. CASE y = m + 1
        <5>1. t[x] \in 1..k /\ t[y] = j
          BY <3>4, <3>6, <4>1, <4>2
        <5> QED
          BY <2>1, <5>1
      <4>3. CASE y \in 1..m
        <5>1. s[x] < s[y]
          BY <2>2, <3>1, <3>2, <3>7, <4>1, <4>3 DEF Ascends
        <5> QED
          BY <3>4, <4>1, <4>3, <5>1
      <4> QED
        BY <3>7, <4>2, <4>3
    <3>8. Ascends(t)
      BY <3>4, <3>7 DEF Ascends
    <3>9. ToSet(t) = ToSet(s) \cup {j}
      <4>1. \A x \in ToSet(t) : x \in ToSet(s) \cup {j}
        <5> SUFFICES ASSUME NEW i \in 1..(m + 1)
                     PROVE  t[i] \in ToSet(s) \cup {j}
          BY <3>5
        <5>1. i = m + 1 \/ i \in 1..m
          OBVIOUS
        <5> QED
          BY <3>4, <3>5, <5>1
      <4>2. \A x \in ToSet(s) : x \in ToSet(t)
        <5> SUFFICES ASSUME NEW i \in 1..m PROVE s[i] \in ToSet(t)
          BY <3>5
        <5>1. i \in 1..(m + 1)
          OBVIOUS
        <5> QED
          BY <3>4, <3>5, <5>1
      <4>3. j \in ToSet(t)
        <5>1. m + 1 \in 1..(m + 1)
          OBVIOUS
        <5> QED
          BY <3>4, <3>5, <5>1
      <4> QED
        BY <4>1, <4>2, <4>3
    <3>10. S \cap (1..j) = (S \cap (1..k)) \cup {j}
      BY <2>1, <2>5
    <3> QED
      BY <2>1, <2>2, <2>3, <2>5, <3>1, <3>3, <3>8, <3>9, <3>10
  <2> QED
    BY <2>4, <2>5
<1>13. n \in T
  <2> HIDE DEF T
  <2>1. \A k \in Nat : k \in T
    BY <1>11, <1>12, NumberInduction
  <2> QED
    BY <2>1
<1>14. Ascends(h[n]) /\ ToSet(h[n]) = S \cap (1..n) /\ h[n] \in D
  <2>1. n \in 0..n
    OBVIOUS
  <2> QED
    BY <1>10, <1>13, <2>1
<1>15. S \cap (1..n) = S
  BY <1>1
<1>16. h[n] \in Seq(1..n)
  <2>1. S \subseteq 1..n
    BY <1>1
  <2> QED
    BY <1>9, <1>14, <2>1, SeqGrows
<1> QED
  BY <1>1, <1>7, <1>14, <1>15, <1>16

\* More parts have no smaller price.
LEMMA DearerWithParts ==
    ASSUME NEW a \in Nat, NEW b \in Nat, b <= a
    PROVE  SummaryPrice(AtMost(b, MaxBatches)) <=
               SummaryPrice(AtMost(a, MaxBatches))
<1>1. /\ MaxBatches \in Nat /\ SummaryCredits \in Nat /\ ExtraCredits \in Nat
      /\ MaxCredits \in Nat
  BY ReplyingAssumption
<1>2. PICK x \in Nat, y \in Nat :
          x = AtMost(b, MaxBatches) /\ y = AtMost(a, MaxBatches) /\ x <= y
  BY <1>1 DEF AtMost
<1>3. PICK m \in Nat, n \in Nat :
          /\ m = (IF x < 1 THEN 1 ELSE x) - 1
          /\ n = (IF y < 1 THEN 1 ELSE y) - 1
          /\ m <= n
  BY <1>2
<1>4. m * ExtraCredits <= n * ExtraCredits
  <2>1. PICK c \in Nat, d \in Nat : c = ExtraCredits /\ n = m + d
    <3>1. m <= n
      BY <1>3
    <3>2. n - m \in Nat /\ n = m + (n - m)
      BY <3>1
    <3> QED
      BY <1>1, <3>2
  <2>2. (m + d) * c = m * c + d * c /\ d * c \in Nat /\ m * c \in Nat
    OBVIOUS
  <2> QED
    BY <2>1, <2>2
<1>5. /\ SummaryPrice(x) = AtMost(SummaryCredits + m * ExtraCredits, MaxCredits)
      /\ SummaryPrice(y) = AtMost(SummaryCredits + n * ExtraCredits, MaxCredits)
  BY <1>3 DEF SummaryPrice
<1>6. PICK u \in Nat, v \in Nat : /\ u = SummaryCredits + m * ExtraCredits
                                  /\ v = SummaryCredits + n * ExtraCredits
                                  /\ u <= v
  <2>1. m * ExtraCredits \in Nat /\ n * ExtraCredits \in Nat
    BY <1>1
  <2> QED
    BY <1>1, <1>4, <2>1
<1>7. AtMost(u, MaxCredits) <= AtMost(v, MaxCredits)
  BY <1>1, <1>6 DEF AtMost
<1> QED
  BY <1>2, <1>5, <1>6, <1>7

\* Fewer sources never cost more.
LEMMA CheaperWithLess ==
    ASSUME shelf \in Shelves, NEW p, p \in Seq(1..Len(shelf)), p /= <<>>,
           NEW q, q \in Seq(1..Len(shelf)), q /= <<>>,
           Ascends(p), Ascends(q), ToSet(p) \subseteq ToSet(q)
    PROVE  SummaryPrice(PartsOfChunks(ChunksOf(p))) <=
               SummaryPrice(PartsOfChunks(ChunksOf(q)))
<1>1. p \in Seq(Nat) /\ q \in Seq(Nat)
  <2>1. 1..Len(shelf) \subseteq Nat
    OBVIOUS
  <2> QED
    BY <2>1, SeqGrows
<1>2. LeftOf(p, q)
  BY <1>1, AscendingLeft
<1>3. PICK a, b : a = ChunksOf(q) /\ b = ChunksOf(p)
  OBVIOUS
<1>4. /\ a \in Seq(Nat \ {0}) /\ a /= <<>>
      /\ b \in Seq(Nat \ {0}) /\ b /= <<>>
  BY <1>3, ChunksAre
<1>5. LeftOf(b, a)
  BY <1>2, <1>3, ChunksLeft
<1>6. /\ Len(Plan(a)) \in Nat /\ Len(Plan(b)) \in Nat
      /\ Len(Plan(b)) <= Len(Plan(a))
  BY <1>4, <1>5, FewerParts
<1>7. SummaryPrice(AtMost(Len(Plan(b)), MaxBatches)) <=
          SummaryPrice(AtMost(Len(Plan(a)), MaxBatches))
  BY <1>6, DearerWithParts
<1> QED
  BY <1>3, <1>7 DEF PartsOfChunks

-----------------------------------------------------------------------------
(* A summary from the price that is shown to the price that is charged.    *)

\* What is shown is of the sources asked for, what is read and what the reply
\* says of itself of those that are left of them.
PriceInv ==
    /\ lengths \in Seq(Nat \ {0})
    /\ task \in {"answer", "support", "ask", "wait"} => lengths = <<>>
    /\ task = "ask" => shelf \in Shelves
    /\ task = "wait" \/ lengths /= <<>> =>
          /\ shelf \in Shelves
          /\ asked \in Seq(1..Len(shelf)) /\ asked /= <<>>
          /\ shown = SummaryPrice(PartsOfChunks(ChunksOf(asked)))
    /\ lengths /= <<>> =>
          /\ allowed \subseteq ToSet(asked) /\ allowed /= {}
          /\ lengths = ChunksOf(ByCreation(allowed))
    /\ task = "done" /\ lengths /= <<>> =>
          reply.units = Parts /\ reply.covered = Covered

\* Sources that are asked for are sources of the topic.
LEMMA AskedOf ==
    ASSUME Len(shelf) \in Nat, NEW s, s \in Seq(1..Len(shelf)), s /= <<>>
    PROVE  ToSet(s) \subseteq 1..Len(shelf) /\ ToSet(s) /= {}
<1>1. PICK n \in Nat, m \in Nat : n = Len(shelf) /\ m = Len(s) /\ m > 0
                                  /\ s \in [1..m -> 1..n]
  <2>1. PICK n \in Nat : n = Len(shelf)
    OBVIOUS
  <2>2. s \in Seq(1..n)
    BY <2>1
  <2>3. Len(s) \in Nat /\ s \in [1..Len(s) -> 1..n]
    BY <2>2, SeqIsFunction
  <2>4. Len(s) > 0
    BY <2>2
  <2> QED
    BY <2>1, <2>3, <2>4
<1>2. ToSet(s) = {s[i] : i \in 1..m}
  BY <1>1 DEF ToSet
<1>3. 1 \in 1..m
  BY <1>1
<1> QED
  BY <1>1, <1>2, <1>3

\* What is left of the sources asked for is not empty, and in their order.
LEMMA AllowedOf ==
    ASSUME shelf \in Shelves, NEW S, S \subseteq 1..Len(shelf), S /= {}
    PROVE  /\ ByCreation(S) \in Seq(1..Len(shelf)) /\ ByCreation(S) /= <<>>
           /\ Ascends(ByCreation(S)) /\ ToSet(ByCreation(S)) = S
           /\ ChunksOf(ByCreation(S)) \in Seq(Nat \ {0})
           /\ ChunksOf(ByCreation(S)) /= <<>>
<1>1. Len(shelf) \in Nat
  <2>1. PICK D : D = Seq(Nat \ {0}) \ {<<>>}
    OBVIOUS
  <2>2. shelf \in Seq(D)
    BY <2>1, ReplyingAssumption
  <2> QED
    BY <2>2
<1>2. /\ ByCreation(S) \in Seq(1..Len(shelf)) /\ Ascends(ByCreation(S))
      /\ ToSet(ByCreation(S)) = S
  BY <1>1, CreationAscends
<1>3. ByCreation(S) /= <<>>
  <2>1. DOMAIN <<>> = {}
    OBVIOUS
  <2>2. ToSet(<<>>) = {}
    BY <2>1 DEF ToSet
  <2> QED
    BY <1>2, <2>2
<1>4. ChunksOf(ByCreation(S)) \in Seq(Nat \ {0}) /\ ChunksOf(ByCreation(S)) /= <<>>
  BY <1>2, <1>3, ChunksAre
<1> QED
  BY <1>2, <1>3, <1>4

\* PriceInv is inductive.
LEMMA PriceInvariance == ReplyingSpec => []PriceInv
<1>1. ReplyingInit => PriceInv
  <2> SUFFICES ASSUME ReplyingInit PROVE PriceInv
    OBVIOUS
  <2>1. /\ lengths = <<>> /\ task \in {"answer", "ask"}
        /\ task = "ask" => shelf \in Shelves
    BY DEF ReplyingInit
  <2> QED
    BY <2>1 DEF PriceInv
<1>2. PriceInv /\ [ReplyingNext]_replyingVars => PriceInv'
  <2> SUFFICES ASSUME PriceInv, [ReplyingNext]_replyingVars PROVE PriceInv'
    OBVIOUS
  <2>1. ASSUME UNCHANGED summaryVars
        PROVE  /\ lengths' = lengths /\ asked' = asked /\ shelf' = shelf
               /\ allowed' = allowed /\ shown' = shown
               /\ Parts' = Parts /\ Covered' = Covered
               /\ (shown = SummaryPrice(PartsOfChunks(ChunksOf(asked))))' <=>
                      shown = SummaryPrice(PartsOfChunks(ChunksOf(asked)))
               /\ (lengths = ChunksOf(ByCreation(allowed)))' <=>
                      lengths = ChunksOf(ByCreation(allowed))
    <3>1. /\ lengths' = lengths /\ asked' = asked /\ shelf' = shelf
          /\ allowed' = allowed /\ shown' = shown
      BY <2>1 DEF summaryVars
    <3>2. Parts' = Parts /\ Covered' = Covered
      BY <3>1 DEF Parts, Covered, Read
    <3>3. /\ (shown = SummaryPrice(PartsOfChunks(ChunksOf(asked))))' <=>
                 shown = SummaryPrice(PartsOfChunks(ChunksOf(asked)))
          /\ (lengths = ChunksOf(ByCreation(allowed)))' <=>
                 lengths = ChunksOf(ByCreation(allowed))
      BY <3>1 DEF ChunksOf, ByCreation
    <3> QED
      BY <3>1, <3>2, <3>3
  <2>2. ASSUME UNCHANGED summaryVars,
               \/ task' = task /\ reply' = reply
               \/ task' = "failed"
               \/ lengths = <<>> /\ task' \in {"support", "done"}
               \/ /\ task = "map" /\ task' = "done"
                  /\ (reply.units = Parts /\ reply.covered = Covered)'
        PROVE  PriceInv'
    <3>1. /\ lengths' = lengths /\ asked' = asked /\ shelf' = shelf
          /\ allowed' = allowed /\ Parts' = Parts /\ Covered' = Covered
      BY <2>1, <2>2
    <3>2. lengths' \in Seq(Nat \ {0})
      BY <3>1 DEF PriceInv
    <3>3. task' \in {"answer", "support", "ask", "wait"} => lengths' = <<>>
      BY <2>2, <3>1 DEF PriceInv
    <3>4. task' = "ask" => shelf' \in Shelves
      BY <2>2, <3>1 DEF PriceInv
    <3>5. task' = "wait" \/ lengths' /= <<>> =>
            task = "wait" \/ lengths /= <<>>
      BY <2>2, <3>1
    <3>6. task' = "wait" \/ lengths' /= <<>> =>
            /\ shelf' \in Shelves
            /\ asked' \in Seq(1..Len(shelf')) /\ asked' /= <<>>
            /\ (shown = SummaryPrice(PartsOfChunks(ChunksOf(asked))))'
      BY <2>1, <2>2, <3>1, <3>5 DEF PriceInv
    <3>7. lengths' /= <<>> =>
            /\ allowed' \subseteq ToSet(asked') /\ allowed' /= {}
            /\ (lengths = ChunksOf(ByCreation(allowed)))'
      BY <2>1, <2>2, <3>1 DEF PriceInv
    <3>8. task' = "done" /\ lengths' /= <<>> =>
            (reply.units = Parts /\ reply.covered = Covered)'
      BY <2>2, <3>1 DEF PriceInv
    <3> QED
      BY <3>2, <3>3, <3>4, <3>6, <3>7, <3>8 DEF PriceInv
  <2>3. CASE UNCHANGED replyingVars
    BY <2>2, <2>3 DEF replyingVars
  <2>4. ASSUME NEW o \in {"connection", "auth", "quota", "rate", "bad"},
               CallFails(o)
        PROVE  PriceInv'
    <3>1. /\ UNCHANGED summaryVars /\ reply' = reply
          /\ task' = task \/ task' = "failed"
      BY <2>4 DEF CallFails
    <3> QED
      BY <2>2, <3>1
  <2>5. CASE ReceiveAnswer
    <3>1. task = "answer" /\ task' = "support" /\ UNCHANGED summaryVars
      BY <2>5 DEF ReceiveAnswer, Answered
    <3> QED
      BY <2>2, <3>1 DEF PriceInv
  <2>6. CASE CheckSupport
    <3>1. task = "support" /\ task' = "done" /\ UNCHANGED summaryVars
      BY <2>6 DEF CheckSupport, Answered
    <3> QED
      BY <2>2, <3>1 DEF PriceInv
  <2>7. CASE ShowPrice
    <3>1. /\ task = "ask" /\ task' = "wait" /\ lengths' = lengths
          /\ shelf' = shelf
          /\ shown' = SummaryPrice(PartsOfChunks(ChunksOf(asked')))
      BY <2>7 DEF ShowPrice
    <3>2. PICK n \in 1..Len(shelf) : asked' \in Injection(1..n, 1..Len(shelf))
      BY <2>7 DEF ShowPrice
    <3>3. shelf \in Shelves /\ lengths = <<>>
      BY <3>1 DEF PriceInv
    <3>4. asked' \in Seq(1..Len(shelf)) /\ asked' /= <<>>
      <4>1. PICK l : l = Len(shelf)
        OBVIOUS
      <4>2. asked' \in [1..n -> 1..l]
        BY <3>2, <4>1 DEF Injection
      <4>3. PICK m \in Nat : m = n /\ m > 0
        <5>1. Len(shelf) \in Nat
          <6>1. PICK D : D = Seq(Nat \ {0}) \ {<<>>}
            OBVIOUS
          <6>2. shelf \in Seq(D)
            BY <3>3, <6>1, ReplyingAssumption
          <6> QED
            BY <6>2
        <5> QED
          BY <5>1
      <4>4. PICK s : s = asked'
        OBVIOUS
      <4>5. s \in [1..m -> 1..l]
        BY <4>2, <4>3, <4>4
      <4>6. s \in Seq(1..l) /\ Len(s) = m
        BY <4>5, FunctionIsSeq
      <4> QED
        BY <4>1, <4>3, <4>4, <4>6
    <3>5. PartsOfChunks(ChunksOf(asked')) = PartsOfChunks(ChunksOf(asked))'
      BY <3>1 DEF ChunksOf
    <3> QED
      BY <3>1, <3>3, <3>4, <3>5 DEF PriceInv
  <2>8. CASE BuildContext
    <3>1. /\ task = "wait" /\ task' = "map" /\ shelf' = shelf /\ asked' = asked
          /\ shown' = shown /\ lengths' = ChunksOf(ByCreation(allowed'))
      BY <2>8 DEF BuildContext
    <3>2. allowed' \subseteq ToSet(asked) /\ allowed' /= {}
      BY <2>8 DEF BuildContext
    <3>3. /\ shelf \in Shelves /\ asked \in Seq(1..Len(shelf)) /\ asked /= <<>>
          /\ shown = SummaryPrice(PartsOfChunks(ChunksOf(asked)))
      BY <3>1 DEF PriceInv
    <3>4. Len(shelf) \in Nat
      <4>1. PICK D : D = Seq(Nat \ {0}) \ {<<>>}
        OBVIOUS
      <4>2. shelf \in Seq(D)
        BY <3>3, <4>1, ReplyingAssumption
      <4> QED
        BY <4>2
    <3>5. ToSet(asked) \subseteq 1..Len(shelf)
      BY <3>3, <3>4, AskedOf
    <3>6. PICK S : S = allowed'
      OBVIOUS
    <3>7. S \subseteq 1..Len(shelf) /\ S /= {}
      BY <3>2, <3>5, <3>6
    <3>8. ChunksOf(ByCreation(S)) \in Seq(Nat \ {0})
      BY <3>3, <3>7, AllowedOf
    <3>9. (ChunksOf(ByCreation(allowed)))' = ChunksOf(ByCreation(allowed'))
      BY <3>1 DEF ChunksOf, ByCreation
    <3>10. (PartsOfChunks(ChunksOf(asked)))' = PartsOfChunks(ChunksOf(asked))
      BY <3>1 DEF ChunksOf
    <3> QED
      BY <3>1, <3>2, <3>3, <3>6, <3>8, <3>9, <3>10 DEF PriceInv
  <2>9. CASE ReadPart
    <3>1. /\ task = "map" /\ task' = "map" /\ UNCHANGED summaryVars
          /\ reply' = reply
      BY <2>9 DEF ReadPart, Answered
    <3> QED
      BY <2>2, <3>1
  <2>10. ASSUME NEW claims, reply' = SummaryOf(claims), Answered("done"),
               task = "map"
        PROVE  PriceInv'
    <3>1. task' = "done" /\ UNCHANGED summaryVars
      BY <2>10 DEF Answered
    <3>2. reply'.units = Parts /\ reply'.covered = Covered
      BY <2>10 DEF SummaryOf
    <3>3. (reply.units = Parts /\ reply.covered = Covered)'
      BY <2>1, <3>1, <3>2
    <3> QED
      BY <2>2, <2>10, <3>1, <3>3
  <2>11. CASE OnePart
    <3>1. reply' = SummaryOf(theses[1]) /\ Answered("done") /\ task = "map"
      BY <2>11 DEF OnePart
    <3> QED
      BY <2>10, <3>1
  <2>12. CASE Reduce
    <3>1. PICK claims : reply' = SummaryOf(claims)
      BY <2>12 DEF Reduce
    <3>2. Answered("done") /\ task = "map"
      BY <2>12 DEF Reduce
    <3> QED
      BY <2>10, <3>1, <3>2
  <2> QED
    BY <2>3, <2>4, <2>5, <2>6, <2>7, <2>8, <2>9, <2>11, <2>12 DEF ReplyingNext
<1> QED
  BY <1>1, <1>2, PTL DEF ReplyingSpec

(***************************************************************************)
(* For any sources, chunks, sizes and batches: no chunk is read twice,     *)
(* chunks are left out only at the limit of the batches, and no part is    *)
(* larger than it may be (plan_summary_parts, _summary).                   *)
(***************************************************************************)
THEOREM PartsAreSoundHolds == ReplyingSpec => []PartsAreSound
<1>1. PriceInv => PartsAreSound
  <2> SUFFICES ASSUME PriceInv, lengths /= <<>> PROVE PartsAreSound
    BY DEF PartsAreSound
  <2>1. lengths \in Seq(Nat \ {0})
    BY DEF PriceInv
  <2>2. /\ Covered = SumSeq(lengths) <=> Len(Plan(lengths)) <= MaxBatches
        /\ FlattenSeq(Plan(lengths)) = [i \in 1..Len(lengths) |-> i]
        /\ \/ SumSeq(lengths) <= SinglePass /\ Len(Plan(lengths)) = 1
           \/ Fits(lengths, Plan(lengths))
    BY <2>1, PlanHolds
  <2>3. task = "done" => reply.covered = Covered
    BY DEF PriceInv
  <2> QED
    BY <2>2, <2>3 DEF PartsAreSound, Fits
<1> QED
  BY <1>1, PriceInvariance, PTL

(***************************************************************************)
(* For any sources, chunks, sizes, batches and prices, and whatever is lost*)
(* of the sources in between: a summary of sources asked for in the order  *)
(* of their creation costs no more than was shown for it, and exactly that *)
(* while none is lost (summary_quote, build_context, summary_price).       *)
(***************************************************************************)
THEOREM NeverDearerHolds == ReplyingSpec => []NeverDearer
<1>1. PriceInv => NeverDearer
  <2> SUFFICES ASSUME PriceInv, task = "done", lengths /= <<>>,
                      \A i, j \in 1..Len(asked) : i < j => asked[i] < asked[j]
               PROVE  /\ Charged <= shown
                      /\ allowed = ToSet(asked) => Charged = shown
    BY DEF NeverDearer
  <2>1. /\ shelf \in Shelves /\ asked \in Seq(1..Len(shelf)) /\ asked /= <<>>
        /\ shown = SummaryPrice(PartsOfChunks(ChunksOf(asked)))
        /\ allowed \subseteq ToSet(asked) /\ allowed /= {}
        /\ lengths = ChunksOf(ByCreation(allowed))
        /\ reply.units = Parts
    BY DEF PriceInv
  <2>2. PICK left : left = ByCreation(allowed)
    OBVIOUS
  <2>3. Charged = SummaryPrice(PartsOfChunks(ChunksOf(left)))
    BY <2>1, <2>2 DEF Charged, Parts
  <2>4. Len(shelf) \in Nat
    <3>1. PICK D : D = Seq(Nat \ {0}) \ {<<>>}
      OBVIOUS
    <3>2. shelf \in Seq(D)
      BY <2>1, <3>1, ReplyingAssumption
    <3> QED
      BY <3>2
  <2>5. allowed \subseteq 1..Len(shelf)
    BY <2>1, <2>4, AskedOf
  <2>6. /\ left \in Seq(1..Len(shelf)) /\ left /= <<>> /\ Ascends(left)
        /\ ToSet(left) = allowed
    BY <2>1, <2>2, <2>5, AllowedOf
  <2>7. Ascends(asked)
    BY DEF Ascends
  <2>8. Charged <= shown
    BY <2>1, <2>3, <2>6, <2>7, CheaperWithLess
  <2>9. ASSUME allowed = ToSet(asked) PROVE Charged = shown
    <3>1. shown <= Charged
      BY <2>1, <2>3, <2>6, <2>7, <2>9, CheaperWithLess
    <3>2. ASSUME NEW n, n \in Int PROVE SummaryPrice(n) \in Int
      <4>1. /\ SummaryCredits \in Nat /\ ExtraCredits \in Nat
            /\ MaxCredits \in Nat
        BY ReplyingAssumption
      <4>2. PICK m \in Int : m = (IF n < 1 THEN 1 ELSE n) - 1
        BY <3>2
      <4>3. m * ExtraCredits \in Int
        BY <4>1
      <4>4. SummaryPrice(n) =
                AtMost(SummaryCredits + m * ExtraCredits, MaxCredits)
        BY <4>2 DEF SummaryPrice
      <4> QED
        BY <4>1, <4>3, <4>4 DEF AtMost
    <3>3. ASSUME NEW s, s \in Seq(1..Len(shelf)), s /= <<>>
          PROVE  SummaryPrice(PartsOfChunks(ChunksOf(s))) \in Int
      <4>1. PICK sizes : sizes = ChunksOf(s)
        OBVIOUS
      <4>2. sizes \in Seq(Nat \ {0}) /\ sizes /= <<>>
        BY <2>1, <3>3, <4>1, ChunksAre
      <4>3. LeftOf(sizes, sizes)
        <5>1. PICK n \in Nat : n = Len(sizes)
          BY <4>2
        <5>2. PICK e : e = [i \in 1..n |-> i]
          OBVIOUS
        <5>3. Embeds(e, sizes, sizes)
          BY <5>1, <5>2 DEF Embeds
        <5> QED
          BY <5>3 DEF LeftOf
      <4>4. Len(Plan(sizes)) \in Nat
        BY <4>2, <4>3, FewerParts
      <4>5. AtMost(Len(Plan(sizes)), MaxBatches) \in Int
        BY <4>4, ReplyingAssumption DEF AtMost
      <4> QED
        BY <3>2, <4>1, <4>5 DEF PartsOfChunks
    <3>4. Charged \in Int /\ shown \in Int
      BY <2>1, <2>3, <2>6, <3>3
    <3> QED
      BY <2>8, <3>1, <3>4
  <2> QED
    BY <2>8, <2>9
<1> QED
  BY <1>1, PriceInvariance, PTL

-----------------------------------------------------------------------------
(* What the folds over claims and citations keep.                          *)

\* A claim keeps citations that were found, and not more than it may.
LEMMA KeptIn ==
    ASSUME NEW s, s \in Seq(Idents \cup {Unfound})
    PROVE  Kept(s) \in Seq(Idents) /\ Len(Kept(s)) <= MaxCited
<1>0. PICK r : r = s
  OBVIOUS
<1>1. PICK n \in Nat : n = Len(s) /\ DOMAIN r = 1..n
                       /\ \A k \in 1..n : r[k] \in Idents \cup {Unfound}
  BY <1>0
<1>2. PICK A, empty : A = {t \in Seq(Idents) : Len(t) <= MaxCited} /\ empty = <<>>
  OBVIOUS
<1> DEFINE F(a, c) == IF c = Unfound \/ c \in ToSet(a) \/ Len(a) >= MaxCited
                     THEN a ELSE Append(a, c)
           Folds(g) == g = [d \in SUBSET DOMAIN r |->
                IF d = {} THEN <<>> ELSE F(g[d \ {Max(d)}], r[Max(d)])]
           step == [p \in A \X (1..n) |-> F(p[1], r[p[2]])]
<1>3. Kept(s) = (CHOOSE g : Folds(g))[DOMAIN r]
  BY <1>0 DEF Kept, FoldLeft, MapThenFoldSet
<1>4. \A a \in A, k \in 1..n : F(a, r[k]) \in A
  <2> SUFFICES ASSUME NEW a \in A, NEW k \in 1..n, r[k] /= Unfound,
                      ~(Len(a) >= MaxCited)
               PROVE  Append(a, r[k]) \in A
    OBVIOUS
  <2>1. PICK c \in Idents : c = r[k]
    BY <1>1
  <2>2. a \in Seq(Idents) /\ Len(a) \in Nat
    BY <1>2
  <2>3. Append(a, c) \in Seq(Idents) /\ Len(Append(a, c)) = Len(a) + 1
    BY <2>2
  <2>4. MaxCited \in Nat
    BY ReplyingAssumption
  <2> QED
    BY <1>2, <2>1, <2>2, <2>3, <2>4
<1> HIDE DEF F
<1>5. \A a \in A, k \in 1..n : step[<<a, k>>] = F(a, r[k])
  OBVIOUS
<1> HIDE DEF step
<1>6. StaysIn(A, step, n) /\ empty \in A
  <2>1. \A a \in A, k \in 1..n : step[<<a, k>>] \in A
    BY <1>4, <1>5
  <2>2. empty \in A
    <3>1. <<>> \in Seq(Idents) /\ Len(<<>>) = 0 /\ MaxCited \in Nat
      BY ReplyingAssumption
    <3> QED
      BY <1>2, <3>1
  <2> QED
    BY <2>1, <2>2 DEF StaysIn
<1>7. \A d \in SUBSET (1..n) : d /= {} => Max(d) \in 1..n /\ d \ {Max(d)} \in SUBSET (1..n)
  BY LastPosition
<1>8. \E g : Folds(g)
  <2>1. PICK g \in [SUBSET (1..n) -> A] : Follows(g, empty, step, n)
    BY <1>6, FoldExists
  <2>2. \A d \in SUBSET (1..n) :
            g[d] = IF d = {} THEN <<>> ELSE F(g[d \ {Max(d)}], r[Max(d)])
    BY <1>2, <1>5, <1>7, <2>1 DEF Follows
  <2>3. Folds(g)
    BY <1>1, <2>1, <2>2
  <2> QED
    BY <2>3
<1>9. PICK g : Folds(g) /\ Kept(s) = g[1..n]
  <2> HIDE DEF Folds
  <2> QED
    BY <1>1, <1>3, <1>8, Zenon
<1>10. \A d \in SUBSET (1..n) :
          g[d] = IF d = {} THEN <<>> ELSE F(g[d \ {Max(d)}], r[Max(d)])
  BY <1>1, <1>9
<1>11. FollowsIn(A, g, empty, step, n)
  BY <1>2, <1>5, <1>7, <1>10 DEF FollowsIn
<1>12. PICK h : Steps(A, h, empty, step, n) /\ h[n] = g[1..n]
  BY <1>6, <1>11, FoldSteps
<1>13. h[n] \in A
  BY <1>12 DEF Steps
<1> QED
  BY <1>2, <1>9, <1>12, <1>13

\* No entry twice.
Distinct(t) == \A i, j \in 1..Len(t) : t[i] = t[j] => i = j

\* Appending what a sequence does not hold keeps it without repetition.
LEMMA AppendNew ==
    ASSUME NEW X, NEW a, a \in Seq(X), Distinct(a), NEW c \in X, c \notin ToSet(a)
    PROVE  /\ Append(a, c) \in Seq(X) /\ Distinct(Append(a, c))
           /\ ToSet(Append(a, c)) = ToSet(a) \cup {c}
<1>0. PICK b : b = Append(a, c)
  OBVIOUS
<1>1. PICK m \in Nat : m = Len(a)
  OBVIOUS
<1>2. /\ b \in Seq(X) /\ Len(b) = m + 1 /\ b[m + 1] = c
      /\ \A i \in 1..m : b[i] = a[i]
  BY <1>0, <1>1
<1>3. ToSet(a) = {a[i] : i \in 1..m} /\ ToSet(b) = {b[i] : i \in 1..(m + 1)}
  <2>1. DOMAIN a = 1..m /\ DOMAIN b = 1..(m + 1)
    BY <1>1, <1>2
  <2> QED
    BY <2>1 DEF ToSet
<1>4. \A i \in 1..(m + 1) : i \in 1..m \/ i = m + 1
  OBVIOUS
<1>5. Distinct(b)
  <2>1. \A i, j \in 1..m : b[i] = b[j] => i = j
    BY <1>1, <1>2 DEF Distinct
  <2>2. \A i \in 1..m : b[i] /= c
    BY <1>2, <1>3
  <2> QED
    BY <1>2, <1>4, <2>1, <2>2 DEF Distinct
<1>6. ToSet(b) = ToSet(a) \cup {c}
  BY <1>2, <1>3, <1>4
<1> QED
  BY <1>0, <1>2, <1>5, <1>6

\* A table holds what was added to it, each once.
LEMMA TableHolds ==
    ASSUME NEW X, NEW s, s \in Seq(X)
    PROVE  /\ AddAll(<<>>, s) \in Seq(X) /\ Distinct(AddAll(<<>>, s))
           /\ ToSet(AddAll(<<>>, s)) = ToSet(s)
<1>0. PICK r : r = s
  OBVIOUS
<1>1. PICK n \in Nat : n = Len(s) /\ DOMAIN r = 1..n
                       /\ \A k \in 1..n : r[k] \in X
  BY <1>0
<1>2. PICK A, empty : A = {t \in Seq(X) : Distinct(t)} /\ empty = <<>>
  OBVIOUS
<1> DEFINE F(a, c) == IF c \in ToSet(a) THEN a ELSE Append(a, c)
           Folds(g) == g = [d \in SUBSET DOMAIN r |->
                IF d = {} THEN <<>> ELSE F(g[d \ {Max(d)}], r[Max(d)])]
           step == [p \in A \X (1..n) |-> F(p[1], r[p[2]])]
<1>3. AddAll(<<>>, s) = (CHOOSE g : Folds(g))[DOMAIN r]
  BY <1>0 DEF AddAll, FoldLeft, MapThenFoldSet
<1>4. \A a \in A, k \in 1..n :
          F(a, r[k]) \in A /\ ToSet(F(a, r[k])) = ToSet(a) \cup {r[k]}
  <2> SUFFICES ASSUME NEW a \in A, NEW k \in 1..n, r[k] \notin ToSet(a)
               PROVE  /\ Append(a, r[k]) \in A
                      /\ ToSet(Append(a, r[k])) = ToSet(a) \cup {r[k]}
    OBVIOUS
  <2>1. PICK c \in X : c = r[k]
    BY <1>1
  <2>2. a \in Seq(X) /\ Distinct(a)
    BY <1>2
  <2>3. Append(a, c) \in Seq(X) /\ Distinct(Append(a, c))
        /\ ToSet(Append(a, c)) = ToSet(a) \cup {c}
    BY <2>1, <2>2, AppendNew
  <2> QED
    BY <1>2, <2>1, <2>3
<1> HIDE DEF F
<1>5. \A a \in A, k \in 1..n : step[<<a, k>>] = F(a, r[k])
  OBVIOUS
<1> HIDE DEF step
<1>6. StaysIn(A, step, n) /\ empty \in A
  <2>1. \A a \in A, k \in 1..n : step[<<a, k>>] \in A
    BY <1>4, <1>5
  <2>2. empty \in A
    <3>1. <<>> \in Seq(X) /\ Len(<<>>) = 0
      OBVIOUS
    <3> QED
      BY <1>2, <3>1 DEF Distinct
  <2> QED
    BY <2>1, <2>2 DEF StaysIn
<1>7. \A d \in SUBSET (1..n) : d /= {} => Max(d) \in 1..n /\ d \ {Max(d)} \in SUBSET (1..n)
  BY LastPosition
<1>8. \E g : Folds(g)
  <2>1. PICK g \in [SUBSET (1..n) -> A] : Follows(g, empty, step, n)
    BY <1>6, FoldExists
  <2>2. \A d \in SUBSET (1..n) :
            g[d] = IF d = {} THEN <<>> ELSE F(g[d \ {Max(d)}], r[Max(d)])
    BY <1>2, <1>5, <1>7, <2>1 DEF Follows
  <2>3. Folds(g)
    BY <1>1, <2>1, <2>2
  <2> QED
    BY <2>3
<1>9. PICK g : Folds(g) /\ AddAll(<<>>, s) = g[1..n]
  <2> HIDE DEF Folds
  <2> QED
    BY <1>1, <1>3, <1>8, Zenon
<1>10. \A d \in SUBSET (1..n) :
          g[d] = IF d = {} THEN <<>> ELSE F(g[d \ {Max(d)}], r[Max(d)])
  BY <1>1, <1>9
<1>11. FollowsIn(A, g, empty, step, n)
  BY <1>2, <1>5, <1>7, <1>10 DEF FollowsIn
<1>12. PICK h : Steps(A, h, empty, step, n) /\ h[n] = g[1..n]
  BY <1>6, <1>11, FoldSteps
<1>13. \A k \in 0..n : h[k] \in A
  BY <1>12 DEF Steps
<1> DEFINE T == {k \in Nat : k \in 0..n => ToSet(h[k]) = {r[i] : i \in 1..k}}
<1>14. 0 \in T
  <2>1. h[0] = <<>>
    BY <1>2, <1>12 DEF Steps
  <2>2. ToSet(<<>>) = {}
    BY DEF ToSet
  <2>3. 1..0 = {}
    OBVIOUS
  <2> QED
    BY <2>1, <2>2, <2>3
<1>15. ASSUME NEW k \in Nat, k \in T PROVE k + 1 \in T
  <2> SUFFICES ASSUME k + 1 \in 0..n
               PROVE  ToSet(h[k + 1]) = {r[i] : i \in 1..(k + 1)}
    OBVIOUS
  <2>1. PICK m \in 1..n : m = k + 1 /\ m - 1 = k /\ k \in 0..n
    OBVIOUS
  <2>2. h[m] = step[<<h[k], m>>] /\ h[k] \in A
    BY <1>12, <1>13, <2>1 DEF Steps
  <2>3. ToSet(h[m]) = ToSet(h[k]) \cup {r[m]}
    BY <1>4, <1>5, <2>2
  <2>4. ToSet(h[k]) = {r[i] : i \in 1..k}
    BY <1>15, <2>1
  <2>5. 1..m = (1..k) \cup {m}
    BY <2>1
  <2>6. {r[i] : i \in 1..m} = {r[i] : i \in 1..k} \cup {r[m]}
    BY <2>5
  <2> QED
    BY <2>1, <2>3, <2>4, <2>6
<1>16. ToSet(h[n]) = {r[i] : i \in 1..n}
  <2>1. \A k \in Nat : k \in T
    <3> HIDE DEF T
    <3> QED
      BY <1>14, <1>15, NumberInduction
  <2>2. n \in T
    BY <2>1, Zenon
  <2>3. n \in 0..n
    OBVIOUS
  <2> QED
    BY <2>2, <2>3
<1>17. ToSet(s) = {r[i] : i \in 1..n}
  BY <1>0, <1>1 DEF ToSet
<1>18. h[n] \in A
  BY <1>13
<1> QED
  BY <1>2, <1>9, <1>12, <1>16, <1>17, <1>18

-----------------------------------------------------------------------------
(* Blocks and what backs them.                                             *)

\* Lists of citations that were found: any, and those of one claim.
Found == Seq(Idents) \ {<<>>}
Short == {s \in Found : Len(s) <= MaxCited}

Claims(names, flags, lists) ==
    [of : SUBSET names, conflict : flags, cites : lists]

\* The block b of the claim c, over the table: it says the same, and refers to
\* the citations of c.
BlockOf(b, c, table) ==
    /\ b = [of |-> c.of, conflict |-> c.conflict, cites |-> b.cites]
    /\ b.cites \in Seq(1..Len(table)) /\ Len(b.cites) = Len(c.cites)
    /\ \A k \in 1..Len(b.cites) : table[b.cites[k]] \in ToSet(c.cites)

\* Every citation gets its number.
LEMMA NumberedIs ==
    ASSUME NEW N, NEW claims, claims \in Seq(Claims(N, BOOLEAN, Found))
    PROVE  /\ Distinct(Numbered(claims).table)
           /\ Len(Numbered(claims).blocks) = Len(claims)
           /\ \A b \in 1..Len(claims) :
                 BlockOf(Numbered(claims).blocks[b], claims[b],
                         Numbered(claims).table)
<1>1. PICK n \in Nat : n = Len(claims)
                       /\ \A b \in 1..n : claims[b] \in Claims(N, BOOLEAN, Found)
  OBVIOUS
<1>2. PICK lists : lists = [b \in 1..n |-> claims[b].cites]
  OBVIOUS
<1>3. /\ lists \in Seq(Seq(Idents)) /\ Len(lists) = n
      /\ \A b \in 1..n : lists[b] = claims[b].cites /\ lists[b] \in Seq(Idents)
  <2>1. \A b \in 1..n : lists[b] = claims[b].cites /\ lists[b] \in Seq(Idents)
    BY <1>1, <1>2 DEF Claims, Found
  <2>2. PICK D : D = Seq(Idents)
    OBVIOUS
  <2>3. lists \in [1..n -> D]
    BY <1>2, <2>1, <2>2
  <2>4. lists \in Seq(D) /\ Len(lists) = n
    BY <2>3, FunctionIsSeq
  <2> QED
    BY <2>1, <2>2, <2>4
<1>4. PICK flat : flat = FlattenSeq(lists)
  OBVIOUS
<1>5. flat \in Seq(Idents) /\ ToSet(flat) = UNION {ToSet(lists[b]) : b \in 1..n}
  BY <1>3, <1>4, FlattenHolds
<1>6. PICK table : table = AddAll(<<>>, flat)
  OBVIOUS
<1>7. table \in Seq(Idents) /\ Distinct(table) /\ ToSet(table) = ToSet(flat)
  BY <1>5, <1>6, TableHolds
<1> DEFINE Number(c) == CHOOSE i \in 1..Len(table) : table[i] = c
           bs == [b \in 1..n |->
                    [of |-> claims[b].of, conflict |-> claims[b].conflict,
                     cites |-> [k \in 1..Len(claims[b].cites) |->
                                    Number(claims[b].cites[k])]]]
<1>8. Numbered(claims).table = table /\ Numbered(claims).blocks = bs
  BY <1>1, <1>2, <1>4, <1>6 DEF Numbered
<1>9. \A c \in ToSet(table) : Number(c) \in 1..Len(table) /\ table[Number(c)] = c
  <2> SUFFICES ASSUME NEW c \in ToSet(table)
               PROVE  Number(c) \in 1..Len(table) /\ table[Number(c)] = c
    OBVIOUS
  <2>1. \E i \in 1..Len(table) : table[i] = c
    BY <1>7 DEF ToSet
  <2> QED
    BY <2>1
<1> HIDE DEF Number
<1>10. ASSUME NEW b \in 1..n PROVE BlockOf(bs[b], claims[b], table)
  <2>0. PICK c \in Seq(Idents) : c = claims[b].cites
    BY <1>3
  <2>1. PICK m \in Nat : m = Len(c)
    OBVIOUS
  <2>2. ToSet(c) = {c[k] : k \in 1..m}
    BY <2>0, <2>1 DEF ToSet
  <2>3. ToSet(c) \subseteq ToSet(table)
    BY <1>3, <1>5, <1>7, <2>0
  <2>4. \A k \in 1..m : Number(c[k]) \in 1..Len(table) /\ table[Number(c[k])] = c[k]
    BY <1>9, <2>2, <2>3
  <2>5. PICK e : e = [k \in 1..m |-> Number(c[k])]
    OBVIOUS
  <2>6. e \in [1..m -> 1..Len(table)]
    BY <2>4, <2>5
  <2>7. e \in Seq(1..Len(table)) /\ Len(e) = m
    BY <2>6, FunctionIsSeq
  <2>8. \A k \in 1..m : table[e[k]] \in ToSet(c)
    BY <2>2, <2>4, <2>5
  <2>9. bs[b] = [of |-> claims[b].of, conflict |-> claims[b].conflict, cites |-> e]
    BY <2>0, <2>1, <2>5
  <2> HIDE DEF bs
  <2> QED
    BY <2>0, <2>1, <2>7, <2>8, <2>9 DEF BlockOf
<1>11. Len(bs) = n
  OBVIOUS
<1> HIDE DEF bs
<1> QED
  BY <1>1, <1>7, <1>8, <1>10, <1>11

\* Whatever a claim cites, one of the claims `all' that it is made of cites.
Backs(all, claims) ==
    \A b \in 1..Len(claims) : \A id \in ToSet(claims[b].cites) :
        \E t \in 1..Len(all) :
            all[t].of \subseteq claims[b].of /\ id \in ToSet(all[t].cites)

\* The part of RepliesBacked that is about the citations.
BlocksBacked(blocks, table, all) ==
    /\ Distinct(table)
    /\ \A b \in 1..Len(blocks) :
          /\ Len(blocks[b].cites) \in 1..MaxCited
          /\ \A k \in 1..Len(blocks[b].cites) :
                /\ blocks[b].cites[k] \in 1..Len(table)
                /\ \E t \in 1..Len(all) :
                      /\ all[t].of \subseteq blocks[b].of
                      /\ table[blocks[b].cites[k]] \in ToSet(all[t].cites)

\* Blocks that say what their claims say, and refer to citations of theirs.
LEMMA BlocksOfClaims ==
    ASSUME NEW claims, NEW all, Backs(all, claims), NEW blocks, NEW table,
           Distinct(table), Len(blocks) = Len(claims),
           \A b \in 1..Len(claims) :
               /\ blocks[b].of = claims[b].of
               /\ blocks[b].cites \in Seq(1..Len(table))
               /\ Len(blocks[b].cites) \in 1..MaxCited
               /\ \A k \in 1..Len(blocks[b].cites) :
                     table[blocks[b].cites[k]] \in ToSet(claims[b].cites)
    PROVE  BlocksBacked(blocks, table, all)
<1> SUFFICES ASSUME NEW b \in 1..Len(claims), NEW k \in 1..Len(blocks[b].cites)
             PROVE  /\ blocks[b].cites[k] \in 1..Len(table)
                    /\ \E t \in 1..Len(all) :
                          /\ all[t].of \subseteq blocks[b].of
                          /\ table[blocks[b].cites[k]] \in ToSet(all[t].cites)
  BY DEF BlocksBacked
<1>1. PICK s : s = blocks[b].cites
  OBVIOUS
<1>2. s[k] \in 1..Len(table)
  <2>1. s \in Seq(1..Len(table)) /\ k \in 1..Len(s)
    BY <1>1
  <2> QED
    BY <2>1, SMTT(40)
<1>3. table[s[k]] \in ToSet(claims[b].cites)
  BY <1>1
<1>4. \E t \in 1..Len(all) :
          all[t].of \subseteq claims[b].of /\ table[s[k]] \in ToSet(all[t].cites)
  BY <1>3 DEF Backs
<1> QED
  BY <1>1, <1>2, <1>4

\* An answer: the claims as they are.
LEMMA AnswerBacked ==
    ASSUME NEW N, NEW claims, claims \in Seq(Claims(N, BOOLEAN, Short)),
           NEW all, Backs(all, claims)
    PROVE  /\ BlocksBacked(Numbered(claims).blocks, Numbered(claims).table, all)
           /\ Len(Numbered(claims).blocks) = Len(claims)
           /\ \A b \in 1..Len(claims) :
                 Numbered(claims).blocks[b].conflict = claims[b].conflict
<1>1. PICK n \in Nat : n = Len(claims)
                       /\ \A b \in 1..n : claims[b] \in Claims(N, BOOLEAN, Short)
  OBVIOUS
<1>2. claims \in Seq(Claims(N, BOOLEAN, Found))
  <2>1. Claims(N, BOOLEAN, Short) \subseteq Claims(N, BOOLEAN, Found)
    BY DEF Claims, Short
  <2> QED
    BY <2>1
<1>3. PICK blocks, table : /\ blocks = Numbered(claims).blocks
                           /\ table = Numbered(claims).table
  OBVIOUS
<1>4. /\ Distinct(table) /\ Len(blocks) = n
      /\ \A b \in 1..n : BlockOf(blocks[b], claims[b], table)
  BY <1>1, <1>2, <1>3, NumberedIs
<1>5. ASSUME NEW b \in 1..n
      PROVE  /\ blocks[b].of = claims[b].of
             /\ blocks[b].conflict = claims[b].conflict
             /\ blocks[b].cites \in Seq(1..Len(table))
             /\ Len(blocks[b].cites) \in 1..MaxCited
             /\ \A k \in 1..Len(blocks[b].cites) :
                   table[blocks[b].cites[k]] \in ToSet(claims[b].cites)
  <2>1. BlockOf(blocks[b], claims[b], table)
    BY <1>4
  <2>2. /\ blocks[b] = [of |-> claims[b].of, conflict |-> claims[b].conflict,
                        cites |-> blocks[b].cites]
        /\ blocks[b].cites \in Seq(1..Len(table))
        /\ Len(blocks[b].cites) = Len(claims[b].cites)
        /\ \A k \in 1..Len(blocks[b].cites) :
              table[blocks[b].cites[k]] \in ToSet(claims[b].cites)
    BY <2>1 DEF BlockOf
  <2>3. PICK cites : cites = claims[b].cites
    OBVIOUS
  <2>4. cites \in Seq(Idents) /\ cites /= <<>> /\ Len(cites) <= MaxCited
    BY <1>1, <2>3 DEF Claims, Short, Found
  <2>5. Len(cites) \in 1..MaxCited
    BY <2>4, ReplyingAssumption
  <2>6. blocks[b].of = claims[b].of /\ blocks[b].conflict = claims[b].conflict
    BY <2>2
  <2> QED
    BY <2>2, <2>3, <2>5, <2>6
<1>6. BlocksBacked(blocks, table, all)
  BY <1>1, <1>4, <1>5, BlocksOfClaims
<1> QED
  BY <1>1, <1>3, <1>4, <1>5, <1>6

\* A summary: not more citations of a claim than it may show.
LEMMA SummaryBacked ==
    ASSUME NEW N, NEW claims, claims \in Seq(Claims(N, {FALSE}, Found)),
           NEW all, Backs(all, claims)
    PROVE  /\ BlocksBacked(SummaryOf(claims).blocks, SummaryOf(claims).table, all)
           /\ \A b \in 1..Len(SummaryOf(claims).blocks) :
                 ~SummaryOf(claims).blocks[b].conflict
<1>1. PICK n \in Nat : n = Len(claims)
                       /\ \A b \in 1..n : claims[b] \in Claims(N, {FALSE}, Found)
  OBVIOUS
<1>2. claims \in Seq(Claims(N, BOOLEAN, Found))
  <2>1. Claims(N, {FALSE}, Found) \subseteq Claims(N, BOOLEAN, Found)
    BY DEF Claims
  <2> QED
    BY <2>1
<1>3. PICK whole, table, blocks :
          /\ whole = Numbered(claims).blocks /\ table = Numbered(claims).table
          /\ blocks = [b \in 1..n |-> [whole[b] EXCEPT !.cites =
                           SubSeq(@, 1, AtMost(MaxCited, Len(@)))]]
  OBVIOUS
<1>4. /\ Distinct(table) /\ Len(whole) = n
      /\ \A b \in 1..n : BlockOf(whole[b], claims[b], table)
  BY <1>1, <1>2, <1>3, NumberedIs
<1>5. SummaryOf(claims).blocks = blocks /\ SummaryOf(claims).table = table
  BY <1>1, <1>3 DEF SummaryOf
<1>6. ASSUME NEW b \in 1..n
      PROVE  /\ blocks[b].of = claims[b].of /\ ~blocks[b].conflict
             /\ blocks[b].cites \in Seq(1..Len(table))
             /\ Len(blocks[b].cites) \in 1..MaxCited
             /\ \A k \in 1..Len(blocks[b].cites) :
                   table[blocks[b].cites[k]] \in ToSet(claims[b].cites)
  <2>1. BlockOf(whole[b], claims[b], table)
    BY <1>4
  <2>2. PICK cites : cites = whole[b].cites
    OBVIOUS
  <2>3. /\ whole[b] = [of |-> claims[b].of, conflict |-> claims[b].conflict,
                       cites |-> cites]
        /\ cites \in Seq(1..Len(table)) /\ Len(cites) = Len(claims[b].cites)
        /\ \A k \in 1..Len(cites) : table[cites[k]] \in ToSet(claims[b].cites)
    BY <2>1, <2>2 DEF BlockOf
  <2>4. ~claims[b].conflict /\ claims[b].cites \in Seq(Idents) /\ claims[b].cites /= <<>>
    BY <1>1 DEF Claims, Found
  <2>5. Len(cites) \in Nat \ {0}
    BY <2>3, <2>4
  <2>6. PICK m \in 1..MaxCited : m = AtMost(MaxCited, Len(cites)) /\ m <= Len(cites)
    BY <2>5, ReplyingAssumption DEF AtMost
  <2>7. PICK s : s = SubSeq(cites, 1, m)
    OBVIOUS
  <2>8. s \in Seq(1..Len(table)) /\ Len(s) = m /\ \A k \in 1..m : s[k] = cites[k]
    BY <2>3, <2>5, <2>6, <2>7
  <2>9. blocks[b] = [of |-> claims[b].of, conflict |-> claims[b].conflict,
                     cites |-> s]
    <3>1. PICK w : w = whole[b]
      OBVIOUS
    <3>2. blocks[b] = [w EXCEPT !.cites =
                          SubSeq(w.cites, 1, AtMost(MaxCited, Len(w.cites)))]
      BY <1>3, <3>1
    <3>3. blocks[b] = [w EXCEPT !.cites = s]
      BY <2>2, <2>6, <2>7, <3>1, <3>2
    <3> QED
      BY <2>3, <3>1, <3>3
  <2>10. \A k \in 1..Len(s) : table[s[k]] \in ToSet(claims[b].cites)
    <3> SUFFICES ASSUME NEW k \in 1..m
                 PROVE  table[s[k]] \in ToSet(claims[b].cites)
      BY <2>8
    <3>1. k \in 1..Len(cites)
      BY <2>5, <2>6
    <3> QED
      BY <2>3, <2>8, <3>1
  <2> QED
    BY <2>4, <2>6, <2>8, <2>9, <2>10
<1>7. Len(blocks) = n
  BY <1>3
<1>8. BlocksBacked(blocks, table, all)
  BY <1>1, <1>4, <1>6, <1>7, BlocksOfClaims
<1> QED
  BY <1>5, <1>6, <1>7, <1>8

-----------------------------------------------------------------------------
(* The claims of a run.                                                    *)

\* Citing keeps claims that have citations.
LEMMA CitedIn ==
    ASSUME NEW N, NEW flags, NEW lists,
           NEW claims, claims \in Seq(Claims(N, flags, lists))
    PROVE  Cited(claims) \in Seq(Claims(N, flags, lists \ {<<>>}) \cap ToSet(claims))
<1>1. PICK A, S : /\ A = Claims(N, flags, lists)
                  /\ S = {c \in ToSet(claims) : c.cites /= <<>>}
  OBVIOUS
<1>2. Cited(claims) \in Seq(A \cap S)
  BY <1>1, OnlyIn DEF Cited
<1>3. A \cap S \subseteq Claims(N, flags, lists \ {<<>>}) \cap ToSet(claims)
  BY <1>1 DEF Claims
<1> QED
  BY <1>2, <1>3, SeqGrows

\* Verified claims cite, and only what was found.
LEMMA VerifiedIn ==
    ASSUME NEW N, NEW flag, NEW claims,
           claims \in Seq(Claims(N, {flag}, RawCitations))
    PROVE  VerifyClaims(claims) \in Seq(Claims(N, {flag}, Short))
<1>1. PICK n \in Nat :
          n = Len(claims) /\ \A i \in 1..n : claims[i] \in Claims(N, {flag}, RawCitations)
  OBVIOUS
<1>2. PICK L : L = {s \in Seq(Idents) : Len(s) <= MaxCited}
  OBVIOUS
<1>3. PICK kept : kept = [i \in 1..n |-> [claims[i] EXCEPT !.cites = Kept(@)]]
  OBVIOUS
<1>4. ASSUME NEW i \in 1..n PROVE kept[i] \in Claims(N, {flag}, L)
  <2>1. PICK c : c = claims[i] /\ c \in Claims(N, {flag}, RawCitations)
    BY <1>1
  <2>2. c.cites \in Seq(Idents \cup {Unfound})
    BY <2>1, ReplyingAssumption DEF Claims
  <2>3. PICK k : k = Kept(c.cites) /\ k \in L
    BY <1>2, <2>2, KeptIn
  <2>4. kept[i] = [c EXCEPT !.cites = k]
    BY <1>3, <2>1, <2>3
  <2> QED
    BY <2>1, <2>3, <2>4 DEF Claims
<1>5. kept \in Seq(Claims(N, {flag}, L))
  <2>1. PICK D : D = Claims(N, {flag}, L)
    OBVIOUS
  <2>2. kept \in [1..n -> D]
    BY <1>3, <1>4, <2>1
  <2> QED
    BY <2>1, <2>2, FunctionIsSeq
<1>6. Cited(kept) \in Seq(Claims(N, {flag}, L \ {<<>>}) \cap ToSet(kept))
  BY <1>5, CitedIn
<1>7. Claims(N, {flag}, L \ {<<>>}) \cap ToSet(kept) \subseteq Claims(N, {flag}, Short)
  BY <1>2 DEF Claims, Short, Found
<1>8. Cited(kept) \in Seq(Claims(N, {flag}, Short))
  BY <1>6, <1>7, SeqGrows
<1> QED
  BY <1>1, <1>3, <1>8 DEF VerifyClaims

\* What the model may send.
LEMMA RawIn ==
    ASSUME NEW N, NEW name \in N, NEW flag, NEW claim \in RawClaims(name, flag)
    PROVE  claim \in Claims(N, {flag}, RawCitations)
BY DEF RawClaims, Claims

\* Claims that are no conflict any more.
LEMMA PlainIn ==
    ASSUME NEW N, NEW sides, sides \in Seq(Claims(N, {TRUE}, Short))
    PROVE  /\ Plain(sides) \in Seq(Claims(N, {FALSE}, Short))
           /\ Len(Plain(sides)) = Len(sides)
<1>1. PICK n \in Nat : n = Len(sides) /\ \A i \in 1..n : sides[i] \in Claims(N, {TRUE}, Short)
  OBVIOUS
<1>2. PICK D : D = Claims(N, {FALSE}, Short)
  OBVIOUS
<1>3. \A i \in 1..n : [sides[i] EXCEPT !.conflict = FALSE] \in D
  BY <1>1, <1>2 DEF Claims
<1>4. Plain(sides) \in [1..n -> D]
  BY <1>1, <1>3 DEF Plain
<1> QED
  BY <1>1, <1>2, <1>4, FunctionIsSeq

\* The sides of a conflict among claims or blocks.
Sides(s) == {i \in 1..Len(s) : s[i].conflict}

\* An answer has no conflict or at least two sides of one.
LEMMA NoLoneSide ==
    ASSUME NEW N, NEW a, a \in Seq(Claims(N, {FALSE}, Short)),
           NEW sides, sides \in Seq(Claims(N, {TRUE}, Short)),
           NEW left,
           left = a \o (IF Len(sides) >= 2 THEN sides ELSE Plain(sides))
    PROVE  /\ left \in Seq(Claims(N, BOOLEAN, Short))
           /\ Cardinality(Sides(left)) /= 1
<1>0. PICK plain : plain = Plain(sides)
  OBVIOUS
<1>1. PICK F, T, B : /\ F = Claims(N, {FALSE}, Short) /\ T = Claims(N, {TRUE}, Short)
                     /\ B = Claims(N, BOOLEAN, Short)
  OBVIOUS
<1>2. /\ F \subseteq B /\ T \subseteq B
      /\ \A c \in F : ~c.conflict
      /\ \A c \in T : c.conflict
  BY <1>1 DEF Claims
<1>3. plain \in Seq(F)
  BY <1>0, <1>1, PlainIn
<1>4. a \in Seq(F) /\ sides \in Seq(T)
  BY <1>1
<1>5. PICK S : S = Sides(left) /\ S = {i \in 1..Len(left) : left[i].conflict}
  BY DEF Sides
<1>6. CASE Len(sides) >= 2
  <2>1. left = a \o sides
    BY <1>6
  <2>2. left \in Seq(B)
    <3>1. a \in Seq(B)
      BY <1>2, <1>4, SeqGrows
    <3>2. sides \in Seq(B)
      BY <1>2, <1>4, SeqGrows
    <3>3. a \o sides \in Seq(B)
      BY <3>1, <3>2, ConcatHolds
    <3> QED
      BY <2>1, <3>3
  <2>3. PICK m \in Nat, n \in Nat : m = Len(a) /\ n = Len(sides) /\ n >= 2
    <3>1. Len(a) \in Nat
      BY <1>4
    <3>2. Len(sides) \in Nat
      BY <1>4
    <3> QED
      BY <1>6, <3>1, <3>2
  <2>4. Len(left) = m + n /\ \A i \in 1..n : left[m + i] = sides[i] /\ sides[i] \in T
    BY <1>4, <2>1, <2>3
  <2>5. m + 1 \in S /\ m + 2 \in S
    <3>0. 1 \in 1..n /\ 2 \in 1..n
      BY <2>3
    <3>1. left[m + 1] \in T /\ left[m + 2] \in T
      BY <2>4, <3>0
    <3>3. left[m + 1].conflict /\ left[m + 2].conflict
      BY <1>2, <3>1
    <3>2. m + 1 \in 1..(m + n) /\ m + 2 \in 1..(m + n)
      BY <2>3
    <3> QED
      BY <1>5, <2>4, <3>2, <3>3
  <2>6. IsFiniteSet(S)
    <3>1. IsFiniteSet(1..(m + n))
      <4>1. PICK lo \in Int, hi \in Int : lo = 1 /\ hi = m + n
        OBVIOUS
      <4> QED
        BY <4>1, FS_Interval
    <3>2. S \subseteq 1..(m + n)
      BY <1>5, <2>4
    <3> QED
      BY <3>1, <3>2, FS_Subset
  <2>7. ASSUME Cardinality(S) = 1 PROVE FALSE
    <3>1. \E x : S = {x}
      BY <2>6, <2>7, FS_Singleton
    <3>2. m + 1 /= m + 2
      OBVIOUS
    <3> QED
      BY <2>5, <3>1, <3>2
  <2> QED
    BY <1>1, <1>5, <2>2, <2>7
<1>7. CASE ~(Len(sides) >= 2)
  <2>1. left = a \o plain
    BY <1>0, <1>7
  <2>2. left \in Seq(F)
    <3>1. a \in Seq(F) /\ plain \in Seq(F)
      BY <1>3, <1>4
    <3>2. a \o plain \in Seq(F)
      BY <3>1, ConcatHolds
    <3> QED
      BY <2>1, <3>2
  <2>3. left \in Seq(B)
    BY <1>2, <2>2, SeqGrows
  <2>4. \A i \in 1..Len(left) : ~left[i].conflict
    <3>1. \A i \in 1..Len(left) : left[i] \in F
      BY <2>2
    <3> QED
      BY <1>2, <3>1
  <2>5. S = {}
    BY <1>5, <2>4
  <2>6. Cardinality(S) /= 1
    <3>1. Cardinality({}) = 0
      BY FS_EmptySet
    <3> QED
      BY <2>5, <3>1
  <2> QED
    BY <1>1, <1>5, <2>3, <2>6
<1> QED
  BY <1>6, <1>7

\* Claims that all come from those `all' back themselves.
LEMMA SelfBacked ==
    ASSUME NEW claims, NEW E, claims \in Seq(E), NEW all, all \in Seq(E),
           ToSet(claims) \subseteq ToSet(all)
    PROVE  Backs(all, claims)
<1> SUFFICES ASSUME NEW b \in 1..Len(claims), NEW id \in ToSet(claims[b].cites)
             PROVE  \E t \in 1..Len(all) : /\ all[t].of \subseteq claims[b].of
                                           /\ id \in ToSet(all[t].cites)
  BY DEF Backs
<1>1. claims[b] \in ToSet(claims)
  BY DEF ToSet
<1>2. ToSet(all) = {all[t] : t \in 1..Len(all)}
  BY DEF ToSet
<1>3. PICK t \in 1..Len(all) : all[t] = claims[b]
  BY <1>1, <1>2
<1> QED
  BY <1>3

\* The claims of one reply, flattened.
LEMMA FlattenOne ==
    ASSUME NEW E, NEW s, s \in Seq(E)
    PROVE  FlattenSeq(<<s>>) \in Seq(E) /\ ToSet(FlattenSeq(<<s>>)) = ToSet(s)
<1>1. PICK seqs : seqs = <<s>>
  OBVIOUS
<1>2. seqs \in Seq(Seq(E)) /\ Len(seqs) = 1 /\ seqs[1] = s
  BY <1>1
<1>3. /\ FlattenSeq(seqs) \in Seq(E)
      /\ ToSet(FlattenSeq(seqs)) = UNION {ToSet(seqs[i]) : i \in 1..Len(seqs)}
  BY <1>2, FlattenHolds
<1>4. UNION {ToSet(seqs[i]) : i \in 1..Len(seqs)} = ToSet(s)
  <2>1. 1..1 = {1}
    OBVIOUS
  <2>2. UNION {ToSet(seqs[i]) : i \in {1}} = ToSet(seqs[1])
    OBVIOUS
  <2> QED
    BY <1>2, <2>1, <2>2
<1> QED
  BY <1>1, <1>3, <1>4

\* The claims of an answer, and the theses of a part.
Answering(flag) == Claims({"c", "p", "q"}, {flag}, Short)
Theses == Claims(Nat, {FALSE}, Short)

\* Claims are verified before they are kept: every list of them holds nothing
\* but found citations, and what was proposed and not dropped is still there.
BackedInv ==
    /\ task \in {"answer", "support"} => lengths = <<>>
    /\ task = "support" =>
          /\ theses \in Seq(Seq(Answering(FALSE))) /\ Len(theses) = 1
          /\ conflicts \in Seq(Answering(TRUE))
          /\ proposed \in Int /\ dropped \in Int
          /\ proposed - dropped = Len(theses[1]) + Len(conflicts)
    /\ task \in {"ask", "wait"} => theses = <<>>
    /\ task = "map" => theses \in Seq(Seq(Theses))
    /\ task = "done" =>
          /\ BlocksBacked(reply.blocks, reply.table, FlattenSeq(theses))
          /\ Cardinality(Sides(reply.blocks)) /= 1
          /\ lengths = <<>> => proposed - dropped = Len(reply.blocks)

\* The model answers.
LEMMA ReceiveAnswerKeeps == BackedInv /\ ReceiveAnswer => BackedInv'
<1> SUFFICES ASSUME BackedInv, ReceiveAnswer PROVE BackedInv'
  OBVIOUS
<1>1. PICK N : N = {"c", "p", "q"}
  OBVIOUS
<1>2. PICK n \in 0..1, m \in 0..2, claim \in RawClaims("c", FALSE),
           p \in RawClaims("p", TRUE), q \in RawClaims("q", TRUE) :
          LET claims == VerifyClaims(SubSeq(<<claim>>, 1, n))
              sides == VerifyClaims(SubSeq(<<p, q>>, 1, m)) IN
          /\ theses' = <<IF Len(sides) >= 2 THEN claims
                         ELSE claims \o Plain(sides)>>
          /\ conflicts' = IF Len(sides) >= 2 THEN sides ELSE <<>>
          /\ proposed' = n + m
          /\ dropped' = n + m - Len(claims) - Len(sides)
  BY DEF ReceiveAnswer
<1>3. PICK one, two : one = SubSeq(<<claim>>, 1, n) /\ two = SubSeq(<<p, q>>, 1, m)
  OBVIOUS
<1>4. PICK F, T : F = Claims(N, {FALSE}, RawCitations) /\ T = Claims(N, {TRUE}, RawCitations)
  OBVIOUS
<1>5. claim \in F /\ p \in T /\ q \in T
  <2>1. "c" \in N /\ "p" \in N /\ "q" \in N
    BY <1>1
  <2> QED
    BY <1>4, <2>1, RawIn
<1>6. one \in Seq(F)
  BY <1>3, <1>5
<1>7. two \in Seq(T)
  BY <1>3, <1>5
<1>8. PICK claims, sides : claims = VerifyClaims(one) /\ sides = VerifyClaims(two)
  OBVIOUS
<1>9. claims \in Seq(Claims(N, {FALSE}, Short)) /\ sides \in Seq(Claims(N, {TRUE}, Short))
  BY <1>4, <1>6, <1>7, <1>8, VerifiedIn
<1>10. PICK plain : plain = Plain(sides)
  OBVIOUS
<1>11. plain \in Seq(Claims(N, {FALSE}, Short)) /\ Len(plain) = Len(sides)
  BY <1>9, <1>10, PlainIn
<1>12. PICK flat : flat = IF Len(sides) >= 2 THEN claims ELSE claims \o plain
  OBVIOUS
<1>13. PICK left : left = IF Len(sides) >= 2 THEN sides ELSE <<>>
  OBVIOUS
<1>14. /\ theses' = <<flat>> /\ conflicts' = left
       /\ proposed' = n + m
       /\ dropped' = n + m - Len(claims) - Len(sides)
  BY <1>2, <1>3, <1>8, <1>10, <1>12, <1>13
<1>15. PICK A, B : A = Claims(N, {FALSE}, Short) /\ B = Claims(N, {TRUE}, Short)
  OBVIOUS
<1>16. Len(claims) \in Nat /\ Len(sides) \in Nat
  BY <1>9
<1>17. flat \in Seq(A) /\ left \in Seq(B)
       /\ Len(flat) + Len(left) = Len(claims) + Len(sides)
  <2>1. claims \in Seq(A) /\ plain \in Seq(A) /\ sides \in Seq(B)
    BY <1>9, <1>11, <1>15
  <2>2. claims \o plain \in Seq(A) /\ Len(claims \o plain) = Len(claims) + Len(plain)
    BY <2>1
  <2>3. <<>> \in Seq(B) /\ Len(<<>>) = 0
    OBVIOUS
  <2> QED
    BY <1>11, <1>12, <1>13, <1>16, <2>1, <2>2, <2>3
<1>18. /\ theses' \in Seq(Seq(Answering(FALSE))) /\ Len(theses') = 1
       /\ theses'[1] = flat
       /\ conflicts' \in Seq(Answering(TRUE))
  <2>1. A = Answering(FALSE) /\ B = Answering(TRUE)
    BY <1>1, <1>15 DEF Answering
  <2>2. PICK D, ts : D = Seq(A) /\ ts = <<flat>>
    OBVIOUS
  <2>3. ts \in Seq(D) /\ Len(ts) = 1 /\ ts[1] = flat
    BY <1>17, <2>2
  <2> QED
    BY <1>14, <1>17, <2>1, <2>2, <2>3
<1>19. proposed' \in Int /\ dropped' \in Int
       /\ proposed' - dropped' = Len(flat) + Len(left)
  BY <1>14, <1>16, <1>17
<1>20. task = "answer" /\ task' = "support" /\ lengths' = lengths
  BY DEF ReceiveAnswer, Answered, summaryVars
<1> QED
  BY <1>14, <1>18, <1>19, <1>20 DEF BackedInv

\* The support check.
LEMMA CheckSupportKeeps == BackedInv /\ CheckSupport => BackedInv'
<1> SUFFICES ASSUME BackedInv, CheckSupport PROVE BackedInv'
  OBVIOUS
<1>1. task = "support" /\ task' = "done" /\ lengths' = lengths /\ proposed' = proposed
  BY DEF CheckSupport, Answered, summaryVars
<1>2. /\ theses \in Seq(Seq(Answering(FALSE))) /\ Len(theses) = 1
      /\ conflicts \in Seq(Answering(TRUE))
      /\ proposed \in Int /\ dropped \in Int
      /\ proposed - dropped = Len(theses[1]) + Len(conflicts)
  BY <1>1 DEF BackedInv
<1>3. PICK supported :
          LET left == FilterSupported(supported)
              flat == theses[1] \o conflicts IN
          /\ dropped' = dropped + Len(flat) - Len(left)
          /\ theses' = <<left>>
          /\ reply' = [NoReply EXCEPT !.units = 1,
                         !.blocks = Numbered(left).blocks,
                         !.table = Numbered(left).table]
  BY DEF CheckSupport
<1>4. PICK left : left = FilterSupported(supported)
  OBVIOUS
<1>5. PICK N : N = {"c", "p", "q"}
  OBVIOUS
<1>6. PICK A, B : A = Claims(N, {FALSE}, Short) /\ B = Claims(N, {TRUE}, Short)
  OBVIOUS
<1>7. A = Answering(FALSE) /\ B = Answering(TRUE)
  BY <1>5, <1>6 DEF Answering
<1>8. theses[1] \in Seq(A) /\ conflicts \in Seq(B)
  <2>1. PICK D : D = Seq(A)
    OBVIOUS
  <2>2. theses \in Seq(D) /\ Len(theses) = 1
    BY <1>2, <1>7, <2>1
  <2>3. theses[1] \in D
    BY <2>2
  <2> QED
    BY <1>2, <1>7, <2>1, <2>3
<1>9. PICK kept, sides : kept = Among(theses[1], supported) /\ sides = Among(conflicts, supported)
  OBVIOUS
<1>10. kept \in Seq(A) /\ sides \in Seq(B)
  <2>1. PICK S, R : /\ S = {c \in ToSet(theses[1]) : c.of \subseteq supported}
                    /\ R = {c \in ToSet(conflicts) : c.of \subseteq supported}
    OBVIOUS
  <2>2. kept \in Seq(A \cap S) /\ sides \in Seq(B \cap R)
    BY <1>8, <1>9, <2>1, OnlyIn DEF Among
  <2>3. A \cap S \subseteq A /\ B \cap R \subseteq B
    OBVIOUS
  <2> QED
    BY <2>2, <2>3, SeqGrows
<1>11. PICK plain : plain = Plain(sides)
  OBVIOUS
<1>12. left = kept \o (IF Len(sides) >= 2 THEN sides ELSE plain)
  BY <1>4, <1>9, <1>11 DEF FilterSupported
<1>13. /\ left \in Seq(Claims(N, BOOLEAN, Short))
       /\ Cardinality(Sides(left)) /= 1
  <2>1. /\ kept \in Seq(Claims(N, {FALSE}, Short))
        /\ sides \in Seq(Claims(N, {TRUE}, Short))
    BY <1>6, <1>10
  <2> QED
    BY <1>11, <1>12, <2>1, NoLoneSide
<1>14. PICK C : C = Claims(N, BOOLEAN, Short)
  OBVIOUS
<1>15. PICK all : all = FlattenSeq(<<left>>)
  OBVIOUS
<1>16. all \in Seq(C) /\ ToSet(all) = ToSet(left)
  BY <1>13, <1>14, <1>15, FlattenOne
<1>17. Backs(all, left)
  BY <1>13, <1>14, <1>16, SelfBacked
<1>18. PICK blocks, table : blocks = Numbered(left).blocks /\ table = Numbered(left).table
  OBVIOUS
<1>19. /\ BlocksBacked(blocks, table, all) /\ Len(blocks) = Len(left)
       /\ \A b \in 1..Len(left) : blocks[b].conflict = left[b].conflict
  BY <1>13, <1>17, <1>18, AnswerBacked
<1>20. reply'.blocks = blocks /\ reply'.table = table /\ theses' = <<left>>
  BY <1>3, <1>4, <1>18 DEF NoReply
<1>21. Sides(blocks) = Sides(left)
  BY <1>19 DEF Sides
<1>22. proposed' - dropped' = Len(left)
  <2>1. PICK a \in Nat, b \in Nat : a = Len(theses[1]) /\ b = Len(conflicts)
    <3>1. Len(theses[1]) \in Nat /\ Len(conflicts) \in Nat
      BY <1>8
    <3> QED
      BY <3>1
  <2>2. Len(theses[1] \o conflicts) = a + b
    BY <1>8, <2>1
  <2>3. PICK l \in Nat : l = Len(left)
    BY <1>13
  <2>4. dropped' = dropped + (a + b) - l
    BY <1>3, <1>4, <2>2, <2>3
  <2> QED
    BY <1>1, <1>2, <2>1, <2>3, <2>4
<1>23. /\ BlocksBacked(reply'.blocks, reply'.table, FlattenSeq(theses'))
       /\ Cardinality(Sides(reply'.blocks)) /= 1
       /\ proposed' - dropped' = Len(reply'.blocks)
  BY <1>13, <1>15, <1>19, <1>20, <1>21, <1>22
<1> QED
  BY <1>1, <1>23 DEF BackedInv

\* A part is read.
LEMMA ReadPartKeeps == BackedInv /\ ReadPart => BackedInv'
<1> SUFFICES ASSUME BackedInv, ReadPart PROVE BackedInv'
  OBVIOUS
<1>1. task = "map" /\ task' = "map"
  BY DEF ReadPart, Answered
<1>2. theses \in Seq(Seq(Theses))
  BY <1>1 DEF BackedInv
<1>3. PICK n \in 0..1, t \in RawClaims(Len(theses), FALSE) :
          theses' = Append(theses, VerifyClaims(SubSeq(<<t>>, 1, n)))
  BY DEF ReadPart
<1>4. PICK N, name : N = Nat /\ name = Len(theses)
  OBVIOUS
<1>5. PICK F : F = Claims(N, {FALSE}, RawCitations)
  OBVIOUS
<1>6. t \in F
  <2>1. name \in N
    BY <1>2, <1>4
  <2>2. t \in RawClaims(name, FALSE)
    BY <1>4
  <2> QED
    BY <1>5, <2>1, <2>2, RawIn
<1>7. PICK one : one = SubSeq(<<t>>, 1, n)
  OBVIOUS
<1>8. one \in Seq(F)
  BY <1>6, <1>7
<1>9. VerifyClaims(one) \in Seq(Claims(N, {FALSE}, Short))
  BY <1>5, <1>8, VerifiedIn
<1>10. theses' \in Seq(Seq(Theses))
  <2>1. PICK D, kept : D = Seq(Theses) /\ kept = VerifyClaims(one)
    OBVIOUS
  <2>2. kept \in D
    BY <1>4, <1>9, <2>1 DEF Theses
  <2>3. Append(theses, kept) \in Seq(D)
    BY <1>2, <2>1, <2>2
  <2> QED
    BY <1>3, <1>7, <2>1, <2>3
<1> QED
  BY <1>1, <1>10 DEF BackedInv

\* Nothing to read makes no part.
LEMMA NoParts == lengths = <<>> => Parts = 0
<1> SUFFICES ASSUME lengths = <<>> PROVE Parts = 0
  OBVIOUS
<1>0. PICK s : s = lengths
  OBVIOUS
<1>1. PICK n \in 0..1 : n = 0
  OBVIOUS
<1>2. s \in [1..n -> Nat]
  BY <1>0, <1>1
<1>3. SumSeq(s) = 0
  BY <1>1, <1>2, SumSeqSmall
<1>4. Plan(lengths) = <<>>
  <2>1. SinglePass \in Nat
    BY ReplyingAssumption
  <2>2. lengths = <<>> /\ SumSeq(lengths) <= SinglePass
    BY <1>0, <1>1, <1>3, <2>1
  <2> QED
    BY <2>2 DEF Plan
<1> QED
  BY <1>4, ReplyingAssumption DEF Parts, PartsOfChunks, AtMost

\* A summary of claims that are backed is backed.
LEMMA SummaryKeeps ==
    ASSUME NEW claims, claims \in Seq(Claims(Nat, {FALSE}, Found)),
           Backs(FlattenSeq(theses), claims),
           reply' = SummaryOf(claims), theses' = theses, Answered("done"),
           Parts > 0
    PROVE  BackedInv'
<1>1. PICK N, all : N = Nat /\ all = FlattenSeq(theses)
  OBVIOUS
<1>2. PICK r : r = SummaryOf(claims)
  OBVIOUS
<1>3. /\ BlocksBacked(r.blocks, r.table, all)
      /\ \A b \in 1..Len(r.blocks) : ~r.blocks[b].conflict
  <2>1. claims \in Seq(Claims(N, {FALSE}, Found)) /\ Backs(all, claims)
    BY <1>1
  <2> QED
    BY <1>2, <2>1, SummaryBacked
<1>4. Cardinality(Sides(r.blocks)) /= 1
  <2>1. Sides(r.blocks) = {}
    BY <1>3 DEF Sides
  <2>2. Cardinality({}) = 0
    BY FS_EmptySet
  <2> QED
    BY <2>1, <2>2
<1>5. lengths' /= <<>> /\ task' = "done"
  <2>1. Parts /= 0
    <3>1. PICK zero : zero = 0 /\ Parts > zero
      OBVIOUS
    <3>2. ASSUME Parts = zero PROVE FALSE
      BY <3>1, <3>2
    <3> QED
      BY <3>1, <3>2
  <2> QED
    BY <2>1, NoParts DEF Answered, summaryVars
<1> QED
  BY <1>1, <1>2, <1>3, <1>4, <1>5 DEF BackedInv

\* The only part is the summary.
LEMMA OnePartKeeps == BackedInv /\ OnePart => BackedInv'
<1> SUFFICES ASSUME BackedInv, OnePart PROVE BackedInv'
  OBVIOUS
<1>1. /\ task = "map" /\ Len(theses) = 1 /\ Parts = 1
      /\ reply' = SummaryOf(theses[1]) /\ Answered("done") /\ theses' = theses
  BY DEF OnePart
<1>2. theses \in Seq(Seq(Theses))
  BY <1>1 DEF BackedInv
<1>3. PICK D, s : D = Seq(Theses) /\ s = theses[1]
  OBVIOUS
<1>4. s \in D /\ theses = <<s>>
  <2>1. theses \in Seq(D)
    BY <1>2, <1>3
  <2> QED
    BY <1>1, <1>3, <2>1
<1>5. /\ FlattenSeq(theses) \in Seq(Theses)
      /\ ToSet(FlattenSeq(theses)) = ToSet(s)
  BY <1>3, <1>4, FlattenOne
<1>6. Backs(FlattenSeq(theses), s)
  BY <1>3, <1>4, <1>5, SelfBacked
<1>7. s \in Seq(Claims(Nat, {FALSE}, Found))
  <2>1. Theses \subseteq Claims(Nat, {FALSE}, Found)
    BY DEF Theses, Claims, Short
  <2> QED
    BY <1>3, <1>4, <2>1, SeqGrows
<1> QED
  BY <1>1, <1>3, <1>6, <1>7, SummaryKeeps

\* A merged thesis is made of theses, and cites what they cite.
LEMMA MergedIn ==
    ASSUME theses \in Seq(Seq(Theses)), NEW refs
    PROVE  /\ Merged(refs) \in Claims(Nat, {FALSE}, Seq(Idents))
           /\ \A id \in ToSet(Merged(refs).cites) :
                 \E t \in 1..Len(FlattenSeq(theses)) :
                     /\ FlattenSeq(theses)[t].of \subseteq Merged(refs).of
                     /\ id \in ToSet(FlattenSeq(theses)[t].cites)
<1>1. PICK all : all = FlattenSeq(theses)
  OBVIOUS
<1>2. all \in Seq(Theses)
  BY <1>1, FlattenHolds
<1>3. PICK S : S = {c \in ToSet(all) : c.of \subseteq refs}
  OBVIOUS
<1>4. PICK based : based = Only(all, S) /\ based = Among(all, refs)
  BY <1>3 DEF Among
<1>5. based \in Seq(Theses \cap S)
  BY <1>2, <1>4, OnlyIn
<1>6. PICK n \in Nat : n = Len(based) /\ \A i \in 1..n : based[i] \in Theses \cap S
  BY <1>5
<1>7. PICK lists : lists = [i \in 1..n |-> based[i].cites]
  OBVIOUS
<1>8. /\ lists \in Seq(Seq(Idents)) /\ Len(lists) = n
      /\ \A i \in 1..n : lists[i] = based[i].cites
  <2>1. \A i \in 1..n : lists[i] = based[i].cites /\ lists[i] \in Seq(Idents)
    BY <1>6, <1>7 DEF Theses, Claims, Short, Found
  <2>2. PICK D : D = Seq(Idents)
    OBVIOUS
  <2>3. lists \in [1..n -> D]
    BY <1>7, <2>1, <2>2
  <2>4. lists \in Seq(D) /\ Len(lists) = n
    BY <2>3, FunctionIsSeq
  <2> QED
    BY <2>1, <2>2, <2>4
<1>9. PICK flat : flat = FlattenSeq(lists)
  OBVIOUS
<1>10. flat \in Seq(Idents) /\ ToSet(flat) = UNION {ToSet(lists[i]) : i \in 1..n}
  BY <1>8, <1>9, FlattenHolds
<1>11. PICK table : table = AddAll(<<>>, flat)
  OBVIOUS
<1>12. table \in Seq(Idents) /\ ToSet(table) = ToSet(flat)
  BY <1>10, <1>11, TableHolds
<1>13. PICK of : of = UNION {based[i].of : i \in 1..n}
  OBVIOUS
<1>14. Merged(refs) = [of |-> of, conflict |-> FALSE, cites |-> table]
  BY <1>1, <1>4, <1>6, <1>7, <1>9, <1>11, <1>13 DEF Merged
<1>15. of \in SUBSET Nat
  <2>1. \A i \in 1..n : based[i].of \subseteq Nat
    BY <1>6 DEF Theses, Claims
  <2> QED
    BY <1>13, <2>1
<1>16. ASSUME NEW id \in ToSet(table)
       PROVE  \E t \in 1..Len(all) : all[t].of \subseteq of /\ id \in ToSet(all[t].cites)
  <2>1. PICK i \in 1..n : id \in ToSet(based[i].cites)
    <3>1. id \in UNION {ToSet(lists[i]) : i \in 1..n}
      BY <1>10, <1>12
    <3>2. PICK i \in 1..n : id \in ToSet(lists[i])
      BY <3>1
    <3> QED
      BY <1>8, <3>2
  <2>2. based[i] \in ToSet(all)
    BY <1>3, <1>6
  <2>3. ToSet(all) = {all[t] : t \in 1..Len(all)}
    BY <1>2 DEF ToSet
  <2>4. PICK t \in 1..Len(all) : all[t] = based[i]
    BY <2>2, <2>3
  <2>5. based[i].of \subseteq of
    BY <1>13
  <2> QED
    BY <2>1, <2>4, <2>5
<1>17. Merged(refs) \in Claims(Nat, {FALSE}, Seq(Idents))
  BY <1>12, <1>14, <1>15 DEF Claims
<1>18. Merged(refs).of = of /\ Merged(refs).cites = table
  BY <1>14
<1> QED
  BY <1>1, <1>16, <1>17, <1>18

\* Several parts are merged.
LEMMA ReduceKeeps == BackedInv /\ Reduce => BackedInv'
<1> SUFFICES ASSUME BackedInv, Reduce PROVE BackedInv'
  OBVIOUS
<1>1. task = "map" /\ Parts > 1 /\ Answered("done") /\ theses' = theses
  BY DEF Reduce
<1>2. theses \in Seq(Seq(Theses))
  BY <1>1 DEF BackedInv
<1>3. PICK refs1, refs2 : reply' = SummaryOf(Cited(<<Merged(refs1), Merged(refs2)>>))
  BY DEF Reduce
<1>4. PICK a, b : a = Merged(refs1) /\ b = Merged(refs2)
  OBVIOUS
<1>5. PICK M, all : M = Claims(Nat, {FALSE}, Seq(Idents)) /\ all = FlattenSeq(theses)
  OBVIOUS
<1>6. /\ a \in M /\ b \in M
      /\ \A m \in {a, b} : \A id \in ToSet(m.cites) :
            \E t \in 1..Len(all) : all[t].of \subseteq m.of /\ id \in ToSet(all[t].cites)
  BY <1>2, <1>4, <1>5, MergedIn
<1>7. PICK both : both = <<a, b>>
  OBVIOUS
<1>8. both \in Seq(M) /\ ToSet(both) = {a, b}
  <2>1. both \in Seq(M) /\ Len(both) = 2 /\ both[1] = a /\ both[2] = b
    BY <1>6, <1>7
  <2>2. DOMAIN both = {1, 2}
    BY <2>1
  <2> QED
    BY <2>1, <2>2 DEF ToSet
<1>9. PICK claims : claims = Cited(both)
  OBVIOUS
<1>10. claims \in Seq(Claims(Nat, {FALSE}, Found) \cap ToSet(both))
  BY <1>5, <1>8, <1>9, CitedIn DEF Found
<1>11. claims \in Seq(Claims(Nat, {FALSE}, Found))
  <2>1. Claims(Nat, {FALSE}, Found) \cap ToSet(both) \subseteq Claims(Nat, {FALSE}, Found)
    OBVIOUS
  <2> QED
    BY <1>10, <2>1, SeqGrows
<1>12. \A i \in 1..Len(claims) : claims[i] \in {a, b}
  BY <1>8, <1>10
<1>13. Backs(all, claims)
  BY <1>6, <1>12 DEF Backs
<1>14. Parts > 0
  <2>1. Parts \in Int
    BY <1>2 DEF Reduce
  <2> QED
    BY <1>1, <2>1
<1> QED
  BY <1>1, <1>3, <1>4, <1>5, <1>7, <1>9, <1>11, <1>13, <1>14, SummaryKeeps

\* BackedInv is inductive.
LEMMA BackedInvariance == ReplyingSpec => []BackedInv
<1>1. ReplyingInit => BackedInv
  <2> SUFFICES ASSUME ReplyingInit PROVE BackedInv
    OBVIOUS
  <2>1. theses = <<>> /\ task \in {"answer", "ask"} /\ lengths = <<>>
    BY DEF ReplyingInit
  <2> QED
    BY <2>1 DEF BackedInv
<1>2. BackedInv /\ [ReplyingNext]_replyingVars => BackedInv'
  <2> SUFFICES ASSUME BackedInv, [ReplyingNext]_replyingVars PROVE BackedInv'
    OBVIOUS
  <2>1. CASE UNCHANGED replyingVars
    BY <2>1 DEF BackedInv, replyingVars, summaryVars
  <2>2. ASSUME NEW o \in {"connection", "auth", "quota", "rate", "bad"},
               CallFails(o)
        PROVE  BackedInv'
    <3>1. /\ task' \in {task, "failed"} /\ Calling
          /\ UNCHANGED <<lengths, theses, conflicts, dropped, proposed, reply>>
      BY <2>2 DEF CallFails, summaryVars
    <3>2. task /= "done"
      BY <3>1 DEF Calling
    <3> QED
      BY <3>1, <3>2 DEF BackedInv
  <2>3. CASE ReceiveAnswer
    BY <2>3, ReceiveAnswerKeeps
  <2>4. CASE CheckSupport
    BY <2>4, CheckSupportKeeps
  <2>5. CASE ReadPart
    BY <2>5, ReadPartKeeps
  <2>6. CASE OnePart
    BY <2>6, OnePartKeeps
  <2>7. CASE Reduce
    BY <2>7, ReduceKeeps
  <2>8. CASE ShowPrice \/ BuildContext
    <3>1. theses' = theses /\ theses = <<>> /\ task' \in {"wait", "map"}
      BY <2>8 DEF ShowPrice, BuildContext, BackedInv
    <3>2. PICK D : D = Seq(Theses)
      OBVIOUS
    <3>3. theses' \in Seq(D)
      BY <3>1
    <3> QED
      BY <3>1, <3>2, <3>3 DEF BackedInv
  <2> QED
    BY <2>1, <2>2, <2>3, <2>4, <2>5, <2>6, <2>7, <2>8 DEF ReplyingNext
<1> QED
  BY <1>1, <1>2, PTL DEF ReplyingSpec

(***************************************************************************)
(* For any citations the model may send, any number of claims' citations   *)
(* and of parts: every block of a reply cites what was found for what it is*)
(* made of, no conflict is reported with one side, and no claim of an      *)
(* answer is lost uncounted.                                               *)
(***************************************************************************)
THEOREM RepliesBackedHolds == ReplyingSpec => []RepliesBacked
<1>1. BackedInv => RepliesBacked
  <2> SUFFICES ASSUME BackedInv, task = "done" PROVE RepliesBacked
    BY DEF RepliesBacked
  <2>1. /\ BlocksBacked(reply.blocks, reply.table, FlattenSeq(theses))
        /\ Cardinality(Sides(reply.blocks)) /= 1
        /\ lengths = <<>> => proposed - dropped = Len(reply.blocks)
    BY DEF BackedInv
  <2>2. PICK blocks, table, all : /\ blocks = reply.blocks /\ table = reply.table
                                  /\ all = FlattenSeq(theses)
    OBVIOUS
  <2>3. /\ \A i, j \in 1..Len(table) : table[i] = table[j] => i = j
        /\ \A b \in 1..Len(blocks) :
              /\ Len(blocks[b].cites) \in 1..MaxCited
              /\ \A k \in 1..Len(blocks[b].cites) :
                    /\ blocks[b].cites[k] \in 1..Len(table)
                    /\ \E t \in 1..Len(all) :
                          /\ all[t].of \subseteq blocks[b].of
                          /\ table[blocks[b].cites[k]] \in ToSet(all[t].cites)
    BY <2>1, <2>2 DEF BlocksBacked, Distinct
  <2>4. Cardinality({i \in 1..Len(blocks) : blocks[i].conflict}) /= 1
    BY <2>1, <2>2 DEF Sides
  <2> QED
    BY <2>1, <2>2, <2>3, <2>4 DEF RepliesBacked
<1> QED
  BY <1>1, BackedInvariance, PTL

-----------------------------------------------------------------------------
(* Intervals.                                                              *)

\* Members of an interval that is not empty have a first one and a last one.
LEMMA Ends ==
    ASSUME NEW a \in Nat, NEW b \in Nat, NEW s, s \subseteq a..b, s /= {}
    PROVE  /\ Min(s) \in s /\ \A y \in s : Min(s) <= y
           /\ Max(s) \in s /\ \A y \in s : y <= Max(s)
<1> DEFINE T == {k \in Nat : \A r \in SUBSET (a..(a + k)) : r /= {} =>
                                /\ \E x \in r : \A y \in r : x <= y
                                /\ \E x \in r : \A y \in r : x >= y}
<1>1. 0 \in T
  <2>1. a..(a + 0) = {a}
    OBVIOUS
  <2>2. \A r \in SUBSET {a} : r /= {} => r = {a}
    OBVIOUS
  <2> QED
    BY <2>1, <2>2
<1>2. ASSUME NEW k \in Nat, k \in T PROVE k + 1 \in T
  <2> SUFFICES ASSUME NEW r \in SUBSET (a..(a + (k + 1))), r /= {}
               PROVE  /\ \E x \in r : \A y \in r : x <= y
                      /\ \E x \in r : \A y \in r : x >= y
    OBVIOUS
  <2>1. PICK m \in Nat : m = a + (k + 1)
    OBVIOUS
  <2>2. r \ {m} \in SUBSET (a..(a + k)) /\ \A x \in r : x <= m
    BY <2>1
  <2>3. CASE r \ {m} = {}
    <3>1. r = {m}
      BY <2>3
    <3> QED
      BY <3>1
  <2>4. CASE r \ {m} /= {}
    <3>1. PICK x \in r \ {m} : \A y \in r \ {m} : x <= y
      BY <1>2, <2>2, <2>4
    <3>2. PICK z \in r \ {m} : \A y \in r \ {m} : z >= y
      BY <1>2, <2>2, <2>4
    <3>3. \A y \in r : x <= y
      BY <2>2, <3>1
    <3>4. \E w \in r : \A y \in r : w >= y
      <4>1. CASE m \in r
        BY <2>2, <4>1
      <4>2. CASE m \notin r
        BY <3>2, <4>2
      <4> QED
        BY <4>1, <4>2
    <3> QED
      BY <3>1, <3>3, <3>4
  <2> QED
    BY <2>3, <2>4
<1> HIDE DEF T
<1>3. \A k \in Nat : k \in T
  BY <1>1, <1>2, NumberInduction
<1>4. a <= b
  <2>1. PICK x : x \in s
    OBVIOUS
  <2>2. x \in a..b
    BY <2>1
  <2> QED
    BY <2>2
<1>5. PICK k \in Nat : b = a + k
  <2>1. b - a \in Nat /\ b = a + (b - a)
    BY <1>4
  <2> QED
    BY <2>1
<1>6. k \in T
  BY <1>3
<1>7. /\ \E x \in s : \A y \in s : x <= y
      /\ \E x \in s : \A y \in s : x >= y
  BY <1>5, <1>6 DEF T
<1>8. Min(s) \in s /\ \A y \in s : Min(s) <= y
  BY <1>7, Zenon DEF Min
<1>9. Max(s) \in s /\ \A y \in s : Max(s) >= y
  BY <1>7, Zenon DEF Max
<1> QED
  BY <1>8, <1>9

-----------------------------------------------------------------------------
(* The chunks of a text.                                                   *)

Chunks == [start : Nat, end : Nat]

\* A piece is cut between its first character and the last it may have.
LEMMA CutWithin ==
    ASSUME NEW text, NEW from \in Nat, NEW hard \in Nat, from <= hard
    PROVE  Cut(text, from, hard) \in from..hard
<1>1. PICK half \in Nat : half = IF Target \div 2 > 1 THEN Target \div 2 ELSE 1
  <2>1. Target \in Nat
    BY CitingAssumption
  <2>2. Target \div 2 \in Nat
    BY <2>1
  <2> QED
    BY <2>2
<1>2. PICK w : w = (from + half)..hard
  OBVIOUS
<1>3. w \subseteq from..hard
  BY <1>2
<1>4. \A s \in SUBSET w : s /= {} => Max(s) \in from..hard
  BY <1>3, Ends
<1>5. hard \in from..hard
  OBVIOUS
<1> QED
  BY <1>1, <1>2, <1>4, <1>5 DEF Cut

\* Where the first chunk from pos on starts and ends.
LEMMA FirstChunkIs ==
    ASSUME NEW text, Len(text) \in Nat, NEW pos \in Nat, pos > 0,
           Inked(text, pos..Len(text)) /= {}
    PROVE  LET p == FirstChunk(text, pos) IN
           /\ p.start \in pos..Len(text) /\ p.cut \in p.start..Len(text)
           /\ p.end \in p.start..p.cut
           /\ p.cut - p.start < Target
           /\ ~IsSpace(text[p.start]) /\ ~IsSpace(text[p.end])
           /\ \A i \in pos..Len(text) : ~IsSpace(text[i]) => p.start <= i
           /\ \A i \in p.start..p.cut : ~IsSpace(text[i]) => i <= p.end
<1>1. PICK n \in Nat : n = Len(text)
  OBVIOUS
<1>2. PICK first : first = Min(Inked(text, pos..n))
  OBVIOUS
<1>3. /\ first \in Inked(text, pos..n)
      /\ \A i \in Inked(text, pos..n) : first <= i
  <2>1. Inked(text, pos..n) \subseteq pos..n
    BY DEF Inked
  <2> QED
    BY <1>1, <1>2, <2>1, Ends
<1>4. first \in pos..n /\ ~IsSpace(text[first]) /\ first \in Nat
  BY <1>3 DEF Inked
<1>5. PICK hard : hard = IF first + Target - 1 < n THEN first + Target - 1 ELSE n
  OBVIOUS
<1>6. hard \in Nat /\ first <= hard /\ hard <= n /\ hard - first < Target
  <2>1. Target \in Nat /\ Target > 0
    BY CitingAssumption
  <2> QED
    BY <1>4, <1>5, <2>1
<1>7. PICK cut : cut = Cut(text, first, hard)
  OBVIOUS
<1>8. cut \in first..hard
  BY <1>4, <1>6, <1>7, CutWithin
<1>9. PICK end : end = Max(Inked(text, first..cut))
  OBVIOUS
<1>10. /\ end \in Inked(text, first..cut)
       /\ \A i \in Inked(text, first..cut) : i <= end
  <2>1. Inked(text, first..cut) \subseteq first..cut /\ cut \in Nat
    BY <1>4, <1>8 DEF Inked
  <2>2. first \in Inked(text, first..cut)
    BY <1>4, <1>8 DEF Inked
  <2> QED
    BY <1>4, <1>9, <2>1, <2>2, Ends
<1>11. end \in first..cut /\ ~IsSpace(text[end])
  BY <1>10 DEF Inked
<1>12. FirstChunk(text, pos) = [start |-> first, end |-> end, cut |-> cut]
  BY <1>1, <1>2, <1>5, <1>7, <1>9 DEF FirstChunk
<1>13. cut \in first..n /\ cut - first < Target
  <2>1. Target \in Nat
    BY CitingAssumption
  <2> QED
    BY <1>4, <1>6, <1>8, <2>1
<1>14. \A i \in pos..n : ~IsSpace(text[i]) => first <= i
  BY <1>3 DEF Inked
<1>15. \A i \in first..cut : ~IsSpace(text[i]) => i <= end
  BY <1>10 DEF Inked
<1> QED
  BY <1>1, <1>4, <1>11, <1>12, <1>13, <1>14, <1>15

\* c[pos] are the chunks from pos on.
Chunked(text, c) ==
    \A pos \in 1..(Len(text) + 1) :
        c[pos] = IF Inked(text, pos..Len(text)) = {} THEN <<>>
                 ELSE LET p == FirstChunk(text, pos) IN
                      <<[start |-> p.start, end |-> p.end]>> \o c[p.cut + 1]

\* Chunks are made that way.
LEMMA ChunkSteps ==
    ASSUME NEW text, Len(text) \in Nat
    PROVE  \E c : Chunked(text, c) /\ ChunkText(text) = c[1]
<1>1. PICK n \in Nat : n = Len(text)
  OBVIOUS
<1> DEFINE X == 1..(n + 1)
           stop == {pos \in X : Inked(text, pos..n) = {}}
           base == [pos \in X |-> <<>>]
           next == [pos \in X |-> FirstChunk(text, pos).cut + 1]
           rank == [pos \in X |-> n + 1 - pos]
           A == Seq(Chunks)
           Span(pos) == [start |-> FirstChunk(text, pos).start,
                         end |-> FirstChunk(text, pos).end]
           comb == [w \in X \X A |-> <<Span(w[1])>> \o w[2]]
           Body(f, pos) == IF Inked(text, pos..n) = {} THEN <<>>
                           ELSE <<Span(pos)>> \o f[FirstChunk(text, pos).cut + 1]
<1>2. \A pos \in X : pos \notin stop =>
          /\ FirstChunk(text, pos).cut \in pos..n
          /\ Span(pos) \in Chunks
  <2> SUFFICES ASSUME NEW pos \in X, Inked(text, pos..n) /= {}
               PROVE  /\ FirstChunk(text, pos).cut \in pos..n
                      /\ Span(pos) \in Chunks
    OBVIOUS
  <2>1. pos \in Nat /\ pos > 0
    OBVIOUS
  <2>2. LET p == FirstChunk(text, pos) IN
        /\ p.start \in pos..n /\ p.cut \in p.start..n /\ p.end \in p.start..p.cut
    BY <1>1, <2>1, FirstChunkIs
  <2>3. PICK first, end, cut : /\ first = FirstChunk(text, pos).start
                               /\ end = FirstChunk(text, pos).end
                               /\ cut = FirstChunk(text, pos).cut
    OBVIOUS
  <2>4. first \in Nat /\ end \in Nat /\ cut \in pos..n
    BY <2>1, <2>2, <2>3
  <2> QED
    BY <2>3, <2>4 DEF Chunks
<1>3. Descends(X, stop, next, rank, n)
  <2> SUFFICES ASSUME NEW pos \in X
               PROVE  /\ rank[pos] \in 0..n
                      /\ pos \notin stop => next[pos] \in X /\ rank[next[pos]] < rank[pos]
    BY DEF Descends
  <2>1. rank[pos] \in 0..n
    OBVIOUS
  <2>2. ASSUME pos \notin stop PROVE next[pos] \in X /\ rank[next[pos]] < rank[pos]
    <3>1. PICK cut : cut = FirstChunk(text, pos).cut
      OBVIOUS
    <3>2. cut \in pos..n
      BY <1>2, <2>2, <3>1
    <3>3. next[pos] = cut + 1
      BY <3>1
    <3> QED
      BY <3>2, <3>3
  <2> QED
    BY <2>1, <2>2
<1>4. Makes(A, X, stop, base, comb)
  <2> SUFFICES ASSUME NEW pos \in X
               PROVE  IF pos \in stop THEN base[pos] \in A
                      ELSE \A a \in A : comb[<<pos, a>>] \in A
    BY DEF Makes
  <2>1. base[pos] \in A
    OBVIOUS
  <2>2. ASSUME pos \notin stop, NEW a \in A PROVE comb[<<pos, a>>] \in A
    <3>1. PICK s \in Chunks : s = Span(pos)
      BY <1>2, <2>2
    <3>2. comb[<<pos, a>>] = <<s>> \o a
      BY <3>1
    <3> QED
      BY <3>1, <3>2
  <2> QED
    BY <2>1, <2>2
<1>5. PICK f \in [X -> A] : Computes(f, X, stop, base, next, comb)
  <2> HIDE DEF X, stop, base, next, rank, A, comb
  <2> QED
    BY <1>3, <1>4, RecursionExists
<1>6. \A pos \in X : f[pos] = Body(f, pos)
  <2> SUFFICES ASSUME NEW pos \in X PROVE f[pos] = Body(f, pos)
    OBVIOUS
  <2>1. f[pos] = IF pos \in stop THEN base[pos] ELSE comb[<<pos, f[next[pos]]>>]
    BY <1>5 DEF Computes
  <2>2. ASSUME pos \notin stop
        PROVE  comb[<<pos, f[next[pos]]>>] = <<Span(pos)>> \o f[FirstChunk(text, pos).cut + 1]
    <3>1. next[pos] = FirstChunk(text, pos).cut + 1 /\ next[pos] \in X
      BY <1>3, <2>2 DEF Descends
    <3>2. PICK a \in A : a = f[next[pos]]
      BY <1>5, <3>1
    <3>3. comb[<<pos, a>>] = <<Span(pos)>> \o a
      OBVIOUS
    <3> QED
      BY <3>1, <3>2, <3>3
  <2> QED
    BY <2>1, <2>2
<1>7. PICK c : c = CHOOSE g : g = [pos \in X |-> Body(g, pos)]
  OBVIOUS
<1>8. c = [pos \in X |-> Body(c, pos)]
  <2>1. f = [pos \in X |-> Body(f, pos)]
    <3> HIDE DEF X, A, Body
    <3> QED
      BY <1>5, <1>6
  <2> HIDE DEF Body
  <2> QED
    BY <1>7, <2>1, Zenon
<1>9. ChunkText(text) = c[1]
  BY <1>1, <1>7 DEF ChunkText
<1>10. \A pos \in X : c[pos] = Body(c, pos)
  <2> HIDE DEF Body
  <2> QED
    BY <1>8
<1>11. Chunked(text, c)
  BY <1>1, <1>10 DEF Chunked
<1> QED
  BY <1>9, <1>11

\* c are chunks in order, and nothing from pos on is left out of them.
Covers(text, c, pos) ==
    /\ c \in Seq(Chunks)
    /\ \A k \in 1..Len(c) :
          /\ pos <= c[k].start /\ c[k].start <= c[k].end /\ c[k].end <= Len(text)
          /\ c[k].end - c[k].start < Target
          /\ ~IsSpace(text[c[k].start]) /\ ~IsSpace(text[c[k].end])
    /\ \A j, k \in 1..Len(c) : j < k => c[j].end < c[k].start
    /\ \A i \in pos..Len(text) : ~IsSpace(text[i]) =>
          \E k \in 1..Len(c) : i \in c[k].start..c[k].end

\* Two sequences end to end.
LEMMA ConcatIs ==
    ASSUME NEW E, NEW a, a \in Seq(E), NEW b, b \in Seq(E)
    PROVE  /\ a \o b \in Seq(E) /\ Len(a \o b) = Len(a) + Len(b)
           /\ \A i \in 1..Len(a) : (a \o b)[i] = a[i]
           /\ \A i \in 1..Len(b) : (a \o b)[Len(a) + i] = b[i]
<1>1. PICK m \in Nat, n \in Nat : m = Len(a) /\ n = Len(b)
  OBVIOUS
<1>2. PICK v : v = a \o b
  OBVIOUS
<1>3. /\ v \in Seq(E) /\ Len(v) = m + n
      /\ \A i \in 1..m : v[i] = a[i]
      /\ \A i \in 1..n : v[m + i] = b[i]
  BY <1>1, <1>2
<1> QED
  BY <1>1, <1>2, <1>3

\* A chunk, and chunks of what follows where it is cut.
LEMMA ChunkThenRest ==
    ASSUME NEW text, NEW n \in Nat, n = Len(text), NEW pos \in Nat,
           NEW s \in Chunks, NEW cut \in Nat, NEW c,
           pos <= s.start, s.start <= s.end, s.end <= cut, cut <= n,
           s.end - s.start < Target,
           ~IsSpace(text[s.start]), ~IsSpace(text[s.end]),
           \A i \in pos..n : ~IsSpace(text[i]) => s.start <= i,
           \A i \in (s.start)..cut : ~IsSpace(text[i]) => i <= s.end,
           Covers(text, c, cut + 1)
    PROVE  Covers(text, <<s>> \o c, pos)
<1>1. PICK v : v = <<s>> \o c
  OBVIOUS
<1>2. c \in Seq(Chunks)
  BY DEF Covers
<1>3. PICK m \in Nat : m = Len(c)
  BY <1>2
<1>4. \A k \in 1..m : c[k] \in Chunks
  BY <1>2, <1>3
<1>5. /\ v \in Seq(Chunks) /\ Len(v) = 1 + m /\ v[1] = s
      /\ \A k \in 1..m : v[k + 1] = c[k]
  <2>1. PICK one : one = <<s>>
    OBVIOUS
  <2>2. one \in Seq(Chunks) /\ Len(one) = 1 /\ one[1] = s
    BY <2>1
  <2>3. v = one \o c
    BY <1>1, <2>1
  <2>4. /\ v \in Seq(Chunks) /\ Len(v) = Len(one) + Len(c)
        /\ \A k \in 1..Len(one) : v[k] = one[k]
        /\ \A k \in 1..Len(c) : v[Len(one) + k] = c[k]
    <3>1. PICK E : E = Chunks
      OBVIOUS
    <3>2. one \in Seq(E) /\ c \in Seq(E)
      BY <1>2, <2>2, <3>1
    <3>3. /\ one \o c \in Seq(E) /\ Len(one \o c) = Len(one) + Len(c)
          /\ \A k \in 1..Len(one) : (one \o c)[k] = one[k]
          /\ \A k \in 1..Len(c) : (one \o c)[Len(one) + k] = c[k]
      BY <3>2, ConcatIs
    <3> QED
      BY <2>3, <3>1, <3>3
  <2>5. v[1] = s /\ Len(v) = 1 + m
    BY <1>3, <2>2, <2>4
  <2>6. ASSUME NEW k \in 1..m PROVE v[k + 1] = c[k]
    <3>1. v[1 + k] = c[k]
      BY <1>3, <2>2, <2>4
    <3>2. 1 + k = k + 1
      OBVIOUS
    <3> QED
      BY <3>1, <3>2
  <2> QED
    BY <2>4, <2>5, <2>6
<1>6. \A k \in 1..(1 + m) : k = 1 \/ (k - 1 \in 1..m /\ v[k] = c[k - 1])
  <2> SUFFICES ASSUME NEW k \in 1..(1 + m), k /= 1
               PROVE  k - 1 \in 1..m /\ v[k] = c[k - 1]
    OBVIOUS
  <2>1. k - 1 \in 1..m /\ (k - 1) + 1 = k
    OBVIOUS
  <2> QED
    BY <1>5, <2>1
<1>7. s.start \in Nat /\ s.end \in Nat
  BY DEF Chunks
<1>8. \A k \in 1..m : c[k].start \in Nat /\ c[k].end \in Nat
  BY <1>4 DEF Chunks
<1>9. \A k \in 1..m :
          /\ cut + 1 <= c[k].start /\ c[k].start <= c[k].end /\ c[k].end <= n
          /\ c[k].end - c[k].start < Target
          /\ ~IsSpace(text[c[k].start]) /\ ~IsSpace(text[c[k].end])
  BY <1>3 DEF Covers
<1>10. ASSUME NEW k \in 1..Len(v)
       PROVE  /\ pos <= v[k].start /\ v[k].start <= v[k].end /\ v[k].end <= n
              /\ v[k].end - v[k].start < Target
              /\ ~IsSpace(text[v[k].start]) /\ ~IsSpace(text[v[k].end])
  <2>1. CASE k = 1
    BY <1>5, <1>7, <2>1
  <2>2. CASE k /= 1
    <3>1. PICK j \in 1..m : v[k] = c[j]
      BY <1>5, <1>6, <2>2
    <3>2. pos <= c[j].start
      BY <1>7, <1>8, <1>9
    <3> QED
      BY <1>9, <3>1, <3>2
  <2> QED
    BY <2>1, <2>2
<1>11. ASSUME NEW j \in 1..Len(v), NEW k \in 1..Len(v), j < k
       PROVE  v[j].end < v[k].start
  <2>1. k - 1 \in 1..m /\ v[k] = c[k - 1]
    BY <1>5, <1>6, <1>11
  <2>2. CASE j = 1
    <3>1. cut + 1 <= c[k - 1].start /\ c[k - 1].start \in Nat
      BY <1>8, <1>9, <2>1
    <3> QED
      BY <1>5, <1>7, <2>1, <2>2, <3>1, SMTT(40)
  <2>3. CASE j /= 1
    <3>1. j - 1 \in 1..m /\ v[j] = c[j - 1]
      BY <1>5, <1>6, <2>3
    <3>2. j - 1 < k - 1
      BY <1>11
    <3>3. \A x, y \in 1..m : x < y => c[x].end < c[y].start
      BY <1>3 DEF Covers
    <3> QED
      BY <2>1, <3>1, <3>2, <3>3
  <2> QED
    BY <2>2, <2>3
<1>12. ASSUME NEW i \in pos..n, ~IsSpace(text[i])
       PROVE  \E k \in 1..Len(v) : i \in (v[k].start)..(v[k].end)
  <2>1. CASE i <= cut
    <3>1. s.start <= i
      BY <1>12
    <3>2. i <= s.end
      BY <1>7, <1>12, <2>1, <3>1
    <3>3. 1 \in 1..Len(v) /\ i \in (v[1].start)..(v[1].end)
      BY <1>5, <1>7, <3>1, <3>2
    <3> QED
      BY <3>3
  <2>2. CASE i > cut
    <3>1. i \in (cut + 1)..n
      BY <2>2
    <3>2. PICK k \in 1..m : i \in (c[k].start)..(c[k].end)
      BY <1>3, <1>12, <3>1 DEF Covers
    <3>3. k + 1 \in 1..Len(v) /\ v[k + 1] = c[k]
      BY <1>5
    <3> QED
      BY <3>2, <3>3
  <2> QED
    BY <2>1, <2>2
<1>13. Covers(text, v, pos)
  BY <1>5, <1>10, <1>11, <1>12 DEF Covers
<1> QED
  BY <1>1, <1>13

\* The chunks of a text cover it.
LEMMA ChunkTextCovers ==
    ASSUME NEW text, Len(text) \in Nat
    PROVE  Covers(text, ChunkText(text), 1)
<1>1. PICK n \in Nat : n = Len(text)
  OBVIOUS
<1>2. PICK c : Chunked(text, c) /\ ChunkText(text) = c[1]
  BY ChunkSteps
<1> DEFINE X == 1..(n + 1)
           stop == {pos \in X : Inked(text, pos..n) = {}}
           next == [pos \in X |-> FirstChunk(text, pos).cut + 1]
           rank == [pos \in X |-> n + 1 - pos]
           P == {pos \in X : Covers(text, c[pos], pos)}
<1>3. ASSUME NEW pos \in X, pos \notin stop
      PROVE  /\ pos \in Nat /\ pos > 0 /\ Inked(text, pos..Len(text)) /= {}
             /\ FirstChunk(text, pos).cut \in pos..n
  <2>1. pos \in Nat /\ pos > 0 /\ Inked(text, pos..Len(text)) /= {}
    BY <1>1, <1>3
  <2>2. LET p == FirstChunk(text, pos) IN
        p.start \in pos..n /\ p.cut \in p.start..n
    BY <1>1, <2>1, FirstChunkIs
  <2>3. PICK first, cut : /\ first = FirstChunk(text, pos).start
                          /\ cut = FirstChunk(text, pos).cut
    OBVIOUS
  <2>4. cut \in pos..n
    BY <2>1, <2>2, <2>3
  <2> QED
    BY <2>1, <2>3, <2>4
<1>4. Descends(X, stop, next, rank, n)
  <2> SUFFICES ASSUME NEW pos \in X
               PROVE  /\ rank[pos] \in 0..n
                      /\ pos \notin stop => next[pos] \in X /\ rank[next[pos]] < rank[pos]
    BY DEF Descends
  <2>1. rank[pos] \in 0..n
    OBVIOUS
  <2>2. ASSUME pos \notin stop PROVE next[pos] \in X /\ rank[next[pos]] < rank[pos]
    <3>1. PICK cut : cut = FirstChunk(text, pos).cut
      OBVIOUS
    <3>2. cut \in pos..n
      BY <1>3, <2>2, <3>1
    <3>3. next[pos] = cut + 1
      BY <3>1
    <3> QED
      BY <3>2, <3>3
  <2> QED
    BY <2>1, <2>2
<1>5. ASSUME NEW pos \in X, pos \in stop PROVE pos \in P
  <2>1. c[pos] = <<>>
    BY <1>1, <1>2, <1>5 DEF Chunked
  <2>2. PICK none : none = <<>>
    OBVIOUS
  <2>3. none \in Seq(Chunks) /\ Len(none) = 0
    BY <2>2
  <2>4. \A i \in pos..n : IsSpace(text[i])
    BY <1>5 DEF Inked
  <2>5. Covers(text, none, pos)
    BY <1>1, <2>3, <2>4 DEF Covers
  <2> QED
    BY <2>1, <2>2, <2>5
<1>6. ASSUME NEW pos \in X, pos \notin stop, next[pos] \in P PROVE pos \in P
  <2>1. PICK s, cut : /\ s = [start |-> FirstChunk(text, pos).start,
                              end |-> FirstChunk(text, pos).end]
                      /\ cut = FirstChunk(text, pos).cut
    OBVIOUS
  <2>2. pos \in Nat /\ pos > 0 /\ cut \in pos..n /\ cut \in Nat
    BY <1>3, <1>6, <2>1
  <2>3. c[pos] = <<s>> \o c[cut + 1]
    BY <1>1, <1>2, <1>6, <2>1 DEF Chunked
  <2>4. Covers(text, c[cut + 1], cut + 1)
    <3>1. next[pos] = cut + 1
      BY <2>1
    <3> QED
      BY <1>6, <3>1
  <2>5. LET p == FirstChunk(text, pos) IN
           /\ p.start \in pos..n /\ p.cut \in p.start..n
           /\ p.end \in p.start..p.cut
           /\ p.cut - p.start < Target
           /\ ~IsSpace(text[p.start]) /\ ~IsSpace(text[p.end])
           /\ \A i \in pos..n : ~IsSpace(text[i]) => p.start <= i
           /\ \A i \in p.start..p.cut : ~IsSpace(text[i]) => i <= p.end
    BY <1>1, <1>3, <1>6, <2>2, FirstChunkIs
  <2>6. s.start = FirstChunk(text, pos).start /\ s.end = FirstChunk(text, pos).end
    BY <2>1
  <2>7. /\ s.start \in pos..n /\ cut \in (s.start)..n /\ s.end \in (s.start)..cut
        /\ cut - s.start < Target
        /\ ~IsSpace(text[s.start]) /\ ~IsSpace(text[s.end])
        /\ \A i \in pos..n : ~IsSpace(text[i]) => s.start <= i
        /\ \A i \in (s.start)..cut : ~IsSpace(text[i]) => i <= s.end
    BY <2>1, <2>5, <2>6
  <2>8. s \in Chunks
    <3>1. s.start \in Nat /\ s.end \in Nat
      BY <2>2, <2>7
    <3> QED
      BY <2>1, <2>6, <3>1 DEF Chunks
  <2>9. s.end - s.start < Target
    <3>1. Target \in Nat
      BY CitingAssumption
    <3> QED
      BY <2>2, <2>7, <3>1, SMTT(40)
  <2>10. /\ pos <= s.start /\ s.start <= s.end /\ s.end <= cut /\ cut <= n
    BY <2>2, <2>7
  <2>11. PICK d : d = c[cut + 1]
    OBVIOUS
  <2>12. Covers(text, <<s>> \o d, pos)
    <3> HIDE DEF X, P, stop, next, rank
    <3> QED
      BY <1>1, <2>2, <2>4, <2>7, <2>8, <2>9, <2>10, <2>11, ChunkThenRest
  <2> QED
    BY <2>3, <2>11, <2>12
<1>7. \A pos \in X : pos \in P
  <2> HIDE DEF X, P, stop, next, rank
  <2> QED
    BY <1>4, <1>5, <1>6, RecursionInduction
<1>8. 1 \in X
  OBVIOUS
<1>9. Covers(text, c[1], 1)
  BY <1>7, <1>8
<1> QED
  BY <1>2, <1>9

-----------------------------------------------------------------------------
(* Normalizing a text and finding a quote in it.                           *)

\* Classes of the last character put out.
Lasts == {"none", "space", "letter", "other"}

\* A word goes on after its hyphen.
LEMMA ContinuesAfter ==
    ASSUME NEW text, NEW n \in Nat, n = Len(text), NEW i \in 1..n,
           Continues(text, i) /= 0
    PROVE  Continues(text, i) \in (i + 1)..n
<1>1. PICK rest : rest = {j \in (i + 1)..n : ~IsSpace(text[j])}
  OBVIOUS
<1>2. PICK j : j = IF rest = {} THEN 0 ELSE Min(rest)
  OBVIOUS
<1>3. Continues(text, i) \in {0, j}
  BY <1>1, <1>2 DEF Continues
<1>4. j /= 0
  BY <1>3
<1>5. rest /= {} /\ j = Min(rest)
  BY <1>2, <1>4
<1>6. rest \subseteq (i + 1)..n /\ i + 1 \in Nat
  BY <1>1
<1>7. Min(rest) \in rest
  BY <1>5, <1>6, Ends
<1> QED
  BY <1>3, <1>5, <1>6, <1>7

\* A sequence of one.
LEMMA OneIs == ASSUME NEW E, NEW x, x \in E PROVE <<x>> \in Seq(E)
OBVIOUS

\* A character becomes one or two.
LEMMA MapCharIs ==
    ASSUME NEW c \in Chars
    PROVE  MapChar(c) \in Seq(Chars)
<1>1. CASE c = "fi"
  <2>1. PICK m : m = <<"f", "i">>
    OBVIOUS
  <2>2. "f" \in Chars /\ "i" \in Chars
    BY DEF Chars
  <2>3. m \in Seq(Chars)
    BY <2>1, <2>2
  <2> QED
    BY <1>1, <2>1, <2>3 DEF MapChar
<1>2. CASE c = "A"
  <2>1. PICK m : m = <<"a">>
    OBVIOUS
  <2>2. "a" \in Chars
    BY DEF Chars
  <2>3. m \in Seq(Chars)
    BY <2>1, <2>2
  <2> QED
    BY <1>2, <2>1, <2>3 DEF MapChar
<1>3. CASE c /= "fi" /\ c /= "A"
  <2>1. MapChar(c) = <<c>>
    BY <1>3 DEF MapChar
  <2> QED
    BY <2>1
<1> QED
  BY <1>1, <1>2, <1>3

\* Reading goes on after i.
LEMMA TakenIs ==
    ASSUME NEW text \in Seq(Chars), NEW n \in Nat, n = Len(text), NEW i \in 1..n,
           NEW last \in Lasts
    PROVE  /\ Taken(text, i, last).out \in Seq(Chars)
           /\ Taken(text, i, last).next \in ((i + 1)..(n + 1)) \X Lasts
<1>1. PICK c \in Chars : c = text[i]
  OBVIOUS
<1>2. PICK t : t = Taken(text, i, last)
  OBVIOUS
<1>3. i + 1 \in (i + 1)..(n + 1)
  OBVIOUS
<1>4. PICK empty : empty = <<>>
  OBVIOUS
<1>5. empty \in Seq(Chars)
  BY <1>4
<1>6. CASE c = "shy"
  <2>1. t = [out |-> <<>>, next |-> <<i + 1, last>>]
    BY <1>1, <1>2, <1>6 DEF Taken, IsSpace
  <2>2. t.out = empty /\ t.next = <<i + 1, last>>
    BY <1>4, <2>1
  <2>3. <<i + 1, last>> \in ((i + 1)..(n + 1)) \X Lasts
    BY <1>3
  <2> QED
    BY <1>2, <1>5, <2>2, <2>3
<1>7. CASE c = "-" /\ last = "letter" /\ Continues(text, i) /= 0
  <2>1. t = [out |-> <<>>, next |-> <<Continues(text, i), last>>]
    BY <1>1, <1>2, <1>7 DEF Taken, IsSpace
  <2>2. Continues(text, i) \in (i + 1)..(n + 1)
    BY <1>7, ContinuesAfter
  <2> QED
    BY <1>2, <1>4, <1>5, <2>1, <2>2
<1>8. CASE IsSpace(c) /\ last \in {"none", "space"}
  <2>1. t = [out |-> <<>>, next |-> <<i + 1, last>>]
    BY <1>1, <1>2, <1>8 DEF Taken, IsSpace
  <2>2. t.out = empty /\ t.next = <<i + 1, last>>
    BY <1>4, <2>1
  <2>3. <<i + 1, last>> \in ((i + 1)..(n + 1)) \X Lasts
    BY <1>3
  <2> QED
    BY <1>2, <1>5, <2>2, <2>3
<1>9. CASE IsSpace(c) /\ last \notin {"none", "space"}
  <2>1. t = [out |-> <<" ">>, next |-> <<i + 1, "space">>]
    BY <1>1, <1>2, <1>9 DEF Taken, IsSpace
  <2>2. PICK blank, m : blank = " " /\ m = <<blank>>
    OBVIOUS
  <2>3. " " \in Chars /\ "space" \in Lasts
    BY DEF Chars, Lasts
  <2>4. m \in Seq(Chars)
    <3>1. blank \in Chars
      BY <2>2, <2>3
    <3>2. <<blank>> \in Seq(Chars)
      BY <3>1, OneIs
    <3> QED
      BY <2>2, <3>2
  <2>5. t.out = m /\ t.next = <<i + 1, "space">>
    BY <2>1, <2>2
  <2>6. <<i + 1, "space">> \in ((i + 1)..(n + 1)) \X Lasts
    BY <1>3, <2>3
  <2> QED
    BY <1>2, <2>4, <2>5, <2>6
<1>10. CASE /\ c /= "shy" /\ ~IsSpace(c)
            /\ ~(c = "-" /\ last = "letter" /\ Continues(text, i) /= 0)
  <2>1. PICK m : m = MapChar(c)
    OBVIOUS
  <2>2. t = [out |-> m, next |-> <<i + 1, IF IsAlpha(Last(m)) THEN "letter"
                                          ELSE "other">>]
    BY <1>1, <1>2, <1>10, <2>1 DEF Taken
  <2>3. m \in Seq(Chars)
    BY <2>1, MapCharIs
  <2> QED
    BY <1>2, <1>3, <2>2, <2>3 DEF Lasts
<1> QED
  BY <1>6, <1>7, <1>8, <1>9, <1>10

\* Where what is put out comes from.
Puts == [char : Chars, at : Nat]

\* s[k] comes from a character of text at or after i, and they are in order.
Maps(text, s, i) ==
    /\ s \in Seq(Puts)
    /\ \A k \in 1..Len(s) : i <= s[k].at /\ s[k].at <= Len(text)
    /\ \A j, k \in 1..Len(s) : j <= k => s[j].at <= s[k].at

\* What a character puts out, and what the rest does.
LEMMA CharThenRest ==
    ASSUME NEW text, NEW n \in Nat, n = Len(text), NEW i \in 1..n,
           NEW out \in Seq(Chars), NEW next \in Nat, i < next, NEW s,
           Maps(text, s, next)
    PROVE  Maps(text, [k \in 1..Len(out) |-> [char |-> out[k], at |-> i]] \o s, i)
<1>1. PICK b : b = [k \in 1..Len(out) |-> [char |-> out[k], at |-> i]]
  OBVIOUS
<1>2. PICK l \in Nat : l = Len(out)
  OBVIOUS
<1>3. /\ b \in [1..l -> Puts]
      /\ \A k \in 1..l : b[k].at = i
  <2>1. \A k \in 1..l : out[k] \in Chars
    BY <1>2
  <2>2. b = [k \in 1..l |-> [char |-> out[k], at |-> i]]
    BY <1>1, <1>2
  <2> QED
    BY <2>1, <2>2 DEF Puts
<1>4. b \in Seq(Puts) /\ Len(b) = l
  BY <1>3, FunctionIsSeq
<1>5. s \in Seq(Puts)
  BY DEF Maps
<1>6. PICK m \in Nat : m = Len(s)
  BY <1>5
<1>7. PICK v : v = b \o s
  OBVIOUS
<1>8. /\ v \in Seq(Puts) /\ Len(v) = l + m
      /\ \A k \in 1..l : v[k] = b[k]
      /\ \A k \in 1..m : v[l + k] = s[k]
  <2>1. PICK E : E = Puts
    OBVIOUS
  <2>2. b \in Seq(E) /\ s \in Seq(E)
    BY <1>4, <1>5, <2>1
  <2>3. /\ b \o s \in Seq(E) /\ Len(b \o s) = Len(b) + Len(s)
        /\ \A k \in 1..Len(b) : (b \o s)[k] = b[k]
        /\ \A k \in 1..Len(s) : (b \o s)[Len(b) + k] = s[k]
    BY <2>2, ConcatIs
  <2> QED
    BY <1>4, <1>6, <1>7, <2>1, <2>3
<1>9. \A k \in 1..(l + m) : k \in 1..l \/ (k - l \in 1..m /\ v[k] = s[k - l])
  <2> SUFFICES ASSUME NEW k \in 1..(l + m), k \notin 1..l
               PROVE  k - l \in 1..m /\ v[k] = s[k - l]
    OBVIOUS
  <2>1. k - l \in 1..m /\ l + (k - l) = k
    OBVIOUS
  <2> QED
    BY <1>8, <2>1
<1>10. /\ \A k \in 1..m : s[k].at \in Nat /\ next <= s[k].at /\ s[k].at <= n
       /\ \A j, k \in 1..m : j <= k => s[j].at <= s[k].at
  <2>1. \A k \in 1..m : s[k] \in Puts
    BY <1>5, <1>6
  <2> QED
    BY <1>6, <2>1 DEF Maps, Puts
<1>11. \A k \in 1..(l + m) :
           v[k].at \in Nat /\ i <= v[k].at /\ v[k].at <= n
  <2> SUFFICES ASSUME NEW k \in 1..(l + m)
               PROVE  v[k].at \in Nat /\ i <= v[k].at /\ v[k].at <= n
    OBVIOUS
  <2>1. CASE k \in 1..l
    BY <1>3, <1>8, <2>1
  <2>2. CASE k \notin 1..l
    <3>1. PICK j \in 1..m : v[k] = s[j]
      BY <1>9, <2>2
    <3>2. s[j].at \in Nat /\ next <= s[j].at /\ s[j].at <= n
      BY <1>10
    <3> QED
      BY <3>1, <3>2
  <2> QED
    BY <2>1, <2>2
<1>12. ASSUME NEW j \in 1..(l + m), NEW k \in 1..(l + m), j <= k
       PROVE  v[j].at <= v[k].at
  <2>1. CASE j \in 1..l
    <3>1. v[j].at = i
      BY <1>3, <1>8, <2>1
    <3> QED
      BY <1>11, <3>1
  <2>2. CASE j \notin 1..l
    <3>1. k \notin 1..l
      BY <1>12, <2>2
    <3>2. /\ j - l \in 1..m /\ v[j] = s[j - l]
          /\ k - l \in 1..m /\ v[k] = s[k - l]
      BY <1>9, <2>2, <3>1
    <3>3. j - l <= k - l
      BY <1>12
    <3> QED
      BY <1>10, <3>2, <3>3
  <2> QED
    BY <2>1, <2>2
<1>13. Maps(text, v, i)
  BY <1>8, <1>11, <1>12 DEF Maps
<1> QED
  BY <1>1, <1>7, <1>13

\* norm[p] is what is put out from place p on.
PutsOut(text, norm) ==
    \A p \in (1..(Len(text) + 1)) \X Lasts :
        norm[p] =
            IF p[1] > Len(text) THEN <<>>
            ELSE LET t == Taken(text, p[1], p[2]) IN
                 [k \in 1..Len(t.out) |-> [char |-> t.out[k], at |-> p[1]]] \o
                     norm[t.next]

\* A text is normalized that way.
LEMMA NormalizeSteps ==
    ASSUME NEW text \in Seq(Chars)
    PROVE  \E norm : PutsOut(text, norm) /\ Normalize(text) = norm[<<1, "none">>]
<1>1. PICK n \in Nat : n = Len(text)
  OBVIOUS
<1> DEFINE X == (1..(n + 1)) \X {"none", "space", "letter", "other"}
           A == Seq(Puts)
           stop == {w \in X : w[1] > n}
           base == [w \in X |-> <<>>]
           next == [w \in X |-> Taken(text, w[1], w[2]).next]
           rank == [w \in X |-> n + 1 - w[1]]
           Put(w) == [k \in 1..Len(Taken(text, w[1], w[2]).out) |->
                         [char |-> Taken(text, w[1], w[2]).out[k], at |-> w[1]]]
           comb == [w \in X \X A |-> Put(w[1]) \o w[2]]
           Body(f, w) == IF w[1] > n THEN <<>>
                         ELSE Put(w) \o f[Taken(text, w[1], w[2]).next]
<1>2. \A w \in X : w \notin stop =>
          /\ Taken(text, w[1], w[2]).next \in X
          /\ rank[Taken(text, w[1], w[2]).next] < rank[w]
          /\ Put(w) \in A
  <2> SUFFICES ASSUME NEW w \in X, w \notin stop
               PROVE  /\ Taken(text, w[1], w[2]).next \in X
                      /\ rank[Taken(text, w[1], w[2]).next] < rank[w]
                      /\ Put(w) \in A
    OBVIOUS
  <2>1. PICK i \in 1..n, last \in Lasts : w = <<i, last>>
    BY DEF Lasts
  <2>2. PICK t : t = Taken(text, i, last)
    OBVIOUS
  <2>3. t.out \in Seq(Chars) /\ t.next \in ((i + 1)..(n + 1)) \X Lasts
    BY <1>1, <2>2, TakenIs
  <2>4. t.next \in X /\ rank[t.next] < rank[w]
    <3>1. PICK j \in (i + 1)..(n + 1), l \in Lasts : t.next = <<j, l>>
      BY <2>3
    <3>2. <<j, l>> \in X
      BY DEF Lasts
    <3>3. rank[<<j, l>>] = n + 1 - j /\ rank[w] = n + 1 - i
      BY <2>1, <3>2
    <3> QED
      BY <3>1, <3>2, <3>3
  <2>5. Put(w) \in A
    <3>1. PICK out \in Seq(Chars) : out = t.out
      BY <2>3
    <3>2. PICK l \in Nat : l = Len(out) /\ \A k \in 1..l : out[k] \in Chars
      OBVIOUS
    <3>3. Put(w) = [k \in 1..l |-> [char |-> out[k], at |-> i]]
      BY <2>1, <2>2, <3>1, <3>2
    <3>4. [k \in 1..l |-> [char |-> out[k], at |-> i]] \in [1..l -> Puts]
      BY <3>2 DEF Puts
    <3> HIDE DEF Put
    <3>5. Put(w) \in [1..l -> Puts]
      BY <3>3, <3>4
    <3> QED
      BY <3>5, FunctionIsSeq
  <2> QED
    BY <2>1, <2>2, <2>4, <2>5
<1>3. \A w \in X : w \notin stop => next[w] = Taken(text, w[1], w[2]).next
  OBVIOUS
<1>4. Descends(X, stop, next, rank, n)
  <2> SUFFICES ASSUME NEW w \in X
               PROVE  /\ rank[w] \in 0..n
                      /\ w \notin stop => next[w] \in X /\ rank[next[w]] < rank[w]
    BY DEF Descends
  <2>1. rank[w] \in 0..n
    OBVIOUS
  <2> HIDE DEF X, stop, next, rank
  <2> QED
    BY <1>2, <1>3, <2>1
<1>5. Makes(A, X, stop, base, comb)
  <2> SUFFICES ASSUME NEW w \in X
               PROVE  IF w \in stop THEN base[w] \in A
                      ELSE \A a \in A : comb[<<w, a>>] \in A
    BY DEF Makes
  <2>1. base[w] \in A
    OBVIOUS
  <2>2. ASSUME w \notin stop, NEW a \in A PROVE comb[<<w, a>>] \in A
    <3>1. PICK b \in A : b = Put(w)
      BY <1>2, <2>2
    <3>2. comb[<<w, a>>] = b \o a
      BY <3>1
    <3>3. b \o a \in A
      <4>1. PICK E : E = Puts
        OBVIOUS
      <4>2. b \in Seq(E) /\ a \in Seq(E)
        BY <4>1
      <4>3. b \o a \in Seq(E)
        BY <4>2, ConcatIs
      <4> QED
        BY <4>1, <4>3
    <3> QED
      BY <3>2, <3>3
  <2> QED
    BY <2>1, <2>2
<1>6. PICK f \in [X -> A] : Computes(f, X, stop, base, next, comb)
  <2> HIDE DEF X, stop, base, next, rank, A, comb
  <2> QED
    BY <1>4, <1>5, RecursionExists
<1>7. \A w \in X : f[w] = Body(f, w)
  <2> SUFFICES ASSUME NEW w \in X PROVE f[w] = Body(f, w)
    OBVIOUS
  <2>1. f[w] = IF w \in stop THEN base[w] ELSE comb[<<w, f[next[w]]>>]
    BY <1>6 DEF Computes
  <2>2. ASSUME w \notin stop
        PROVE  comb[<<w, f[next[w]]>>] = Put(w) \o f[Taken(text, w[1], w[2]).next]
    <3>1. next[w] = Taken(text, w[1], w[2]).next /\ next[w] \in X
      <4> HIDE DEF X, stop, next, rank
      <4> QED
        BY <1>2, <1>3, <2>2
    <3>2. PICK a \in A : a = f[next[w]]
      BY <1>6, <3>1
    <3>3. comb[<<w, a>>] = Put(w) \o a
      <4> HIDE DEF X, A, Put
      <4> QED
        OBVIOUS
    <3> HIDE DEF Put, comb
    <3> QED
      BY <3>1, <3>2, <3>3
  <2> QED
    BY <2>1, <2>2
<1>8. PICK c : c = CHOOSE g : g = [w \in X |-> Body(g, w)]
  OBVIOUS
<1>9. c = [w \in X |-> Body(c, w)]
  <2>1. f = [w \in X |-> Body(f, w)]
    <3> HIDE DEF X, A, Body
    <3> QED
      BY <1>6, <1>7
  <2> HIDE DEF X, Body
  <2> QED
    BY <1>8, <2>1, Zenon
<1>10. Normalize(text) = c[<<1, "none">>]
  BY <1>1, <1>8 DEF Normalize
<1>11. \A w \in X : c[w] = Body(c, w)
  <2> HIDE DEF X, Body
  <2> QED
    BY <1>9
<1>12. PutsOut(text, c)
  <2> SUFFICES ASSUME NEW w \in (1..(n + 1)) \X Lasts PROVE c[w] = Body(c, w)
    BY <1>1 DEF PutsOut
  <2>1. w \in X
    BY DEF Lasts
  <2> HIDE DEF X, Body
  <2> QED
    BY <1>11, <2>1
<1> QED
  BY <1>10, <1>12

\* What is put out from a place on comes from the text there and after, in
\* order.
LEMMA PlacesMap ==
    ASSUME NEW text \in Seq(Chars), NEW norm, PutsOut(text, norm)
    PROVE  \A w \in (1..(Len(text) + 1)) \X Lasts : Maps(text, norm[w], w[1])
<1>1. PICK n \in Nat : n = Len(text)
  OBVIOUS
<1>2. PutsOut(text, norm)
  OBVIOUS
<1> DEFINE X == (1..(n + 1)) \X Lasts
           stop == {w \in X : w[1] > n}
           next == [w \in X |-> Taken(text, w[1], w[2]).next]
           rank == [w \in X |-> n + 1 - w[1]]
           P == {w \in X : Maps(text, norm[w], w[1])}
<1>3. ASSUME NEW w \in X, w \notin stop
      PROVE  /\ next[w] \in X /\ next[w][1] \in Nat /\ w[1] < next[w][1]
             /\ Taken(text, w[1], w[2]).out \in Seq(Chars)
  <2>1. PICK i \in 1..n, last \in Lasts : w = <<i, last>>
    BY <1>3
  <2>2. PICK t : t = Taken(text, i, last)
    OBVIOUS
  <2>3. t.out \in Seq(Chars) /\ t.next \in ((i + 1)..(n + 1)) \X Lasts
    BY <1>1, <2>2, TakenIs
  <2>4. PICK j \in (i + 1)..(n + 1), l \in Lasts : t.next = <<j, l>>
    BY <2>3
  <2>5. next[w] = <<j, l>>
    BY <2>1, <2>2, <2>4
  <2>6. <<j, l>> \in X /\ j \in Nat /\ i < j
    OBVIOUS
  <2> HIDE DEF X, stop, next, rank, P
  <2> QED
    BY <2>1, <2>2, <2>3, <2>5, <2>6
<1>4. Descends(X, stop, next, rank, n)
  <2> SUFFICES ASSUME NEW w \in X
               PROVE  /\ rank[w] \in 0..n
                      /\ w \notin stop => next[w] \in X /\ rank[next[w]] < rank[w]
    BY DEF Descends
  <2>1. rank[w] \in 0..n /\ w[1] \in 1..(n + 1)
    OBVIOUS
  <2>2. ASSUME w \notin stop PROVE next[w] \in X /\ rank[next[w]] < rank[w]
    <3>1. PICK v \in X : v = next[w] /\ w[1] < v[1]
      BY <1>3, <2>2
    <3>2. rank[v] = n + 1 - v[1] /\ rank[w] = n + 1 - w[1]
          /\ v[1] \in 1..(n + 1)
      OBVIOUS
    <3> HIDE DEF X, stop, next, rank
    <3> QED
      BY <2>1, <3>1, <3>2
  <2> HIDE DEF X, stop, next, rank
  <2> QED
    BY <2>1, <2>2
<1>5. ASSUME NEW w \in X, w \in stop PROVE w \in P
  <2>1. norm[w] = <<>>
    BY <1>1, <1>2, <1>5 DEF PutsOut
  <2>2. PICK none : none = <<>>
    OBVIOUS
  <2>3. none \in Seq(Puts) /\ Len(none) = 0
    BY <2>2
  <2>4. Maps(text, none, w[1])
    BY <2>3 DEF Maps
  <2> QED
    BY <2>1, <2>2, <2>4
<1>6. ASSUME NEW w \in X, w \notin stop, next[w] \in P PROVE w \in P
  <2>1. PICK i \in 1..n, out \in Seq(Chars), j \in Nat :
            /\ i = w[1] /\ out = Taken(text, w[1], w[2]).out
            /\ j = next[w][1] /\ i < j
    BY <1>3, <1>6
  <2>2. PICK s : s = norm[next[w]]
    OBVIOUS
  <2>3. Maps(text, s, j)
    BY <1>6, <2>1, <2>2
  <2>4. next[w] = Taken(text, w[1], w[2]).next
    OBVIOUS
  <2>5. norm[w] = [k \in 1..Len(out) |-> [char |-> out[k], at |-> i]] \o s
    <3>1. norm[w] = IF w[1] > n THEN <<>>
                    ELSE [k \in 1..Len(Taken(text, w[1], w[2]).out) |->
                             [char |-> Taken(text, w[1], w[2]).out[k], at |-> w[1]]] \o
                         norm[Taken(text, w[1], w[2]).next]
      BY <1>1, <1>2 DEF PutsOut
    <3>2. ~(w[1] > n)
      BY <1>6
    <3> HIDE DEF X, stop, next, rank, P
    <3> QED
      BY <2>1, <2>2, <2>4, <3>1, <3>2
  <2>6. Maps(text, [k \in 1..Len(out) |-> [char |-> out[k], at |-> i]] \o s, i)
    <3> HIDE DEF X, stop, next, rank, P
    <3> QED
      BY <1>1, <2>1, <2>3, CharThenRest
  <2> QED
    BY <2>1, <2>5, <2>6
<1>7. \A w \in X : w \in P
  <2> HIDE DEF X, P, stop, next, rank
  <2> QED
    BY <1>4, <1>5, <1>6, RecursionInduction
<1>8. \A w \in X : Maps(text, norm[w], w[1])
  BY <1>7
<1> HIDE DEF P, stop, next, rank
<1> QED
  BY <1>1, <1>8

\* The characters put out come from text, in order.
LEMMA NormalizeMaps ==
    ASSUME NEW text \in Seq(Chars)
    PROVE  Maps(text, Normalize(text), 1)
<1>1. PICK norm : PutsOut(text, norm) /\ Normalize(text) = norm[<<1, "none">>]
  BY NormalizeSteps
<1>2. PICK w \in (1..(Len(text) + 1)) \X Lasts : w = <<1, "none">>
  <2>1. Len(text) \in Nat
    OBVIOUS
  <2>2. 1 \in 1..(Len(text) + 1) /\ "none" \in Lasts
    BY <2>1 DEF Lasts
  <2>3. <<1, "none">> \in (1..(Len(text) + 1)) \X Lasts
    BY <2>2
  <2> QED
    BY <2>3
<1>3. Maps(text, norm[w], w[1])
  BY <1>1, PlacesMap
<1>4. w[1] = 1 /\ norm[w] = Normalize(text)
  BY <1>1, <1>2
<1> QED
  BY <1>3, <1>4

\* The characters of what is put out.
LEMMA CharsOfIs ==
    ASSUME NEW n, n \in Seq(Puts)
    PROVE  CharsOf(n) \in Seq(Chars) /\ Len(CharsOf(n)) = Len(n)
<1>1. PICK m \in Nat : m = Len(n) /\ \A i \in 1..m : n[i] \in Puts
  OBVIOUS
<1>2. PICK s : s = [i \in 1..m |-> n[i].char]
  OBVIOUS
<1>3. s \in [1..m -> Chars]
  BY <1>1, <1>2 DEF Puts
<1>4. s \in Seq(Chars) /\ Len(s) = m
  BY <1>3, FunctionIsSeq
<1>5. CharsOf(n) = s
  BY <1>1, <1>2 DEF CharsOf
<1> QED
  BY <1>1, <1>4, <1>5

\* A normalized text is a text.
LEMMA NormalizedIs ==
    ASSUME NEW text \in Seq(Chars)
    PROVE  Normalized(text) \in Seq(Chars)
<1>1. Normalize(text) \in Seq(Puts)
  BY NormalizeMaps DEF Maps
<1>2. PICK s \in Seq(Chars) : s = CharsOf(Normalize(text))
  BY <1>1, CharsOfIs
<1>3. CASE s /= <<>> /\ Last(s) = " "
  <2>1. Normalized(text) = SubSeq(s, 1, Len(s) - 1)
    BY <1>2, <1>3 DEF Normalized, TrimEnd, Front
  <2> QED
    BY <2>1
<1>4. CASE ~(s /= <<>> /\ Last(s) = " ")
  BY <1>2, <1>4 DEF Normalized, TrimEnd
<1> QED
  BY <1>3, <1>4

\* The parts of a quote are what normalized texts that are not empty are.
LEMMA PartsOfIn ==
    ASSUME NEW quote, quote \in Seq(Seq(Chars)), NEW B,
           \A text \in Seq(Chars) : Normalized(text) /= <<>> => Normalized(text) \in B
    PROVE  PartsOf(quote) \in Seq(B)
<1>0. PICK r, D : r = quote /\ D = Seq(Chars)
  OBVIOUS
<1>1. PICK n \in Nat : n = Len(quote) /\ DOMAIN r = 1..n
                       /\ \A k \in 1..n : r[k] \in D
  <2>1. r \in Seq(D)
    BY <1>0
  <2> QED
    BY <1>0, <2>1
<1>2. PICK A, empty : A = Seq(B) /\ empty = <<>>
  OBVIOUS
<1> DEFINE F(a, p) == IF Normalized(p) = <<>> THEN a ELSE Append(a, Normalized(p))
           Folds(g) == g = [d \in SUBSET DOMAIN r |->
                IF d = {} THEN <<>> ELSE F(g[d \ {Max(d)}], r[Max(d)])]
           step == [p \in A \X (1..n) |-> F(p[1], r[p[2]])]
<1>3. PartsOf(quote) = (CHOOSE g : Folds(g))[DOMAIN r]
  BY <1>0 DEF PartsOf, FoldLeft, MapThenFoldSet
<1>4. \A a \in A, k \in 1..n : F(a, r[k]) \in A
  <2> SUFFICES ASSUME NEW a \in A, NEW k \in 1..n, Normalized(r[k]) /= <<>>
               PROVE  Append(a, Normalized(r[k])) \in A
    OBVIOUS
  <2>1. PICK text \in Seq(Chars) : text = r[k]
    BY <1>0, <1>1
  <2>2. Normalized(text) \in B
    BY <2>1
  <2>3. a \in Seq(B)
    BY <1>2
  <2>4. Append(a, Normalized(text)) \in Seq(B)
    BY <2>2, <2>3, AppendIn
  <2> QED
    BY <1>2, <2>1, <2>4
<1> HIDE DEF F
<1>5. \A a \in A, k \in 1..n : step[<<a, k>>] = F(a, r[k])
  OBVIOUS
<1> HIDE DEF step
<1>6. StaysIn(A, step, n) /\ empty \in A
  <2>1. \A a \in A, k \in 1..n : step[<<a, k>>] \in A
    BY <1>4, <1>5
  <2>2. empty \in A
    BY <1>2
  <2> QED
    BY <2>1, <2>2 DEF StaysIn
<1>7. \A d \in SUBSET (1..n) : d /= {} => Max(d) \in 1..n /\ d \ {Max(d)} \in SUBSET (1..n)
  BY LastPosition
<1>8. \E g : Folds(g)
  <2>1. PICK g \in [SUBSET (1..n) -> A] : Follows(g, empty, step, n)
    BY <1>6, FoldExists
  <2>2. \A d \in SUBSET (1..n) :
            g[d] = IF d = {} THEN <<>> ELSE F(g[d \ {Max(d)}], r[Max(d)])
    BY <1>2, <1>5, <1>7, <2>1 DEF Follows
  <2>3. Folds(g)
    BY <1>1, <2>1, <2>2
  <2> QED
    BY <2>3
<1>9. PICK g : Folds(g) /\ PartsOf(quote) = g[1..n]
  <2> HIDE DEF Folds
  <2> QED
    BY <1>1, <1>3, <1>8, Zenon
<1>10. \A d \in SUBSET (1..n) :
          g[d] = IF d = {} THEN <<>> ELSE F(g[d \ {Max(d)}], r[Max(d)])
  BY <1>1, <1>9
<1>11. FollowsIn(A, g, empty, step, n)
  BY <1>2, <1>5, <1>7, <1>10 DEF FollowsIn
<1>12. PICK h : Steps(A, h, empty, step, n) /\ h[n] = g[1..n]
  BY <1>6, <1>11, FoldSteps
<1>13. h[n] \in A
  BY <1>12 DEF Steps
<1> QED
  BY <1>2, <1>9, <1>12, <1>13

\* They are texts that are not empty.
LEMMA PartsOfIs ==
    ASSUME NEW quote, quote \in Seq(Seq(Chars))
    PROVE  PartsOf(quote) \in Seq(Seq(Chars) \ {<<>>})
<1>1. PICK B : B = Seq(Chars) \ {<<>>}
  OBVIOUS
<1>2. \A text \in Seq(Chars) : Normalized(text) /= <<>> => Normalized(text) \in B
  BY <1>1, NormalizedIs
<1>3. PartsOf(quote) \in Seq(B)
  BY <1>2, PartsOfIn
<1> QED
  BY <1>1, <1>3

\* A part is found at or after from, within hay.
LEMMA FindIs ==
    ASSUME NEW hay \in Seq(Chars), NEW part \in Seq(Chars), part /= <<>>,
           NEW from \in Nat, from > 0, Find(hay, part, from) /= 0
    PROVE  /\ Find(hay, part, from) \in from..Len(hay)
           /\ Find(hay, part, from) + Len(part) - 1 \in from..Len(hay)
<1>1. PICK at : at = {i \in from..(Len(hay) - Len(part) + 1) :
                        SubSeq(hay, i, i + Len(part) - 1) = part}
  OBVIOUS
<1>2. at /= {} /\ Find(hay, part, from) = Min(at)
  BY <1>1 DEF Find
<1>3. PICK n \in Nat, l \in Nat : n = Len(hay) /\ l = Len(part)
  OBVIOUS
<1>4. l > 0
  BY <1>3
<1>5. at \subseteq from..n
  BY <1>1, <1>3, <1>4
<1>6. Min(at) \in at
  BY <1>2, <1>5, Ends
<1>7. Min(at) \in from..(n - l + 1)
  BY <1>1, <1>3, <1>6
<1>8. PICK p \in from..(n - l + 1) : p = Min(at)
  BY <1>7
<1>9. p \in from..n /\ p + l - 1 \in from..n
  BY <1>4
<1> QED
  BY <1>2, <1>3, <1>8, <1>9

\* g[k] is where part k ends when each is taken as early as it can be.
Taking(hay, parts, first, g) ==
    /\ g \in [1..Len(parts) -> {0} \cup first..Len(hay)]
    /\ g[1] = first + Len(parts[1]) - 1
    /\ \A k \in 2..Len(parts) :
          g[k] = IF g[k - 1] = 0 THEN 0
                 ELSE LET p == Find(hay, parts[k], g[k - 1] + 1) IN
                      IF p = 0 THEN 0 ELSE p + Len(parts[k]) - 1

\* Parts are taken one after the other.
LEMMA GreedySteps ==
    ASSUME NEW hay \in Seq(Chars), NEW parts, parts \in Seq(Seq(Chars) \ {<<>>}),
           parts /= <<>>, NEW first \in 1..Len(hay),
           first + Len(parts[1]) - 1 \in first..Len(hay)
    PROVE  \E g : /\ Taking(hay, parts, first, g)
                  /\ Greedy(hay, parts, first) = g[Len(parts)]
<1>1. PICK n \in Nat, m \in Nat : n = Len(hay) /\ m = Len(parts)
  <2>1. PICK B : B = Seq(Chars) \ {<<>>}
    OBVIOUS
  <2>2. parts \in Seq(B)
    BY <2>1
  <2>3. Len(parts) \in Nat /\ Len(hay) \in Nat
    BY <2>2
  <2> QED
    BY <2>3
<1>2. m > 0 /\ \A k \in 1..m : parts[k] \in Seq(Chars) /\ parts[k] /= <<>>
  <2>1. PICK B : B = Seq(Chars) \ {<<>>}
    OBVIOUS
  <2>2. parts \in Seq(B)
    BY <2>1
  <2>3. m > 0 /\ \A k \in 1..m : parts[k] \in B
    BY <1>1, <2>2
  <2> QED
    BY <2>1, <2>3
<1>3. PICK ended \in first..n : ended = first + Len(parts[1]) - 1
  BY <1>1
<1> DEFINE X == 1..m
           A == {0} \cup first..n
           stop == {1}
           base == [k \in X |-> ended]
           next == [k \in X |-> k - 1]
           rank == [k \in X |-> k]
           EndOf(k, a) == IF a = 0 THEN 0
                          ELSE LET p == Find(hay, parts[k], a + 1) IN
                               IF p = 0 THEN 0 ELSE p + Len(parts[k]) - 1
           comb == [w \in X \X A |-> EndOf(w[1], w[2])]
           Body(f, k) == IF k = 1 THEN ended ELSE EndOf(k, f[k - 1])
<1>4. \A k \in X, a \in A : EndOf(k, a) \in A
  <2> SUFFICES ASSUME NEW k \in X, NEW a \in A, a /= 0,
                      Find(hay, parts[k], a + 1) /= 0
               PROVE  Find(hay, parts[k], a + 1) + Len(parts[k]) - 1 \in A
    OBVIOUS
  <2>1. PICK part \in Seq(Chars) : part = parts[k] /\ part /= <<>>
    BY <1>2
  <2>2. PICK from \in Nat : from = a + 1 /\ from > 0 /\ first <= from
    <3>1. a \in first..n
      OBVIOUS
    <3> QED
      BY <3>1
  <2>3. Find(hay, part, from) /= 0
    BY <2>1, <2>2
  <2>4. Find(hay, part, from) + Len(part) - 1 \in from..Len(hay)
    BY <2>1, <2>2, <2>3, FindIs
  <2>5. PICK e \in from..n : e = Find(hay, part, from) + Len(part) - 1
    BY <1>1, <2>4
  <2>6. e \in A
    BY <2>2
  <2> QED
    BY <2>1, <2>2, <2>5, <2>6
<1> HIDE DEF EndOf
<1>5. Descends(X, stop, next, rank, m)
  BY DEF Descends
<1>6. Makes(A, X, stop, base, comb)
  BY <1>4 DEF Makes
<1>7. PICK f \in [X -> A] : Computes(f, X, stop, base, next, comb)
  <2> HIDE DEF X, stop, base, next, rank, A, comb
  <2> QED
    BY <1>5, <1>6, RecursionExists
<1>8. \A k \in X : f[k] = Body(f, k)
  <2> SUFFICES ASSUME NEW k \in X PROVE f[k] = Body(f, k)
    OBVIOUS
  <2>1. f[k] = IF k \in stop THEN base[k] ELSE comb[<<k, f[next[k]]>>]
    BY <1>7 DEF Computes
  <2>2. ASSUME k \notin stop PROVE comb[<<k, f[next[k]]>>] = EndOf(k, f[k - 1])
    <3>1. next[k] = k - 1 /\ k - 1 \in X
      BY <2>2
    <3>2. PICK a \in A : a = f[k - 1]
      BY <1>7, <3>1
    <3> QED
      BY <3>1, <3>2
  <2> QED
    BY <2>1, <2>2
<1>9. PICK g : g = CHOOSE h : h = [k \in X |-> Body(h, k)]
  OBVIOUS
<1>10. g = [k \in X |-> Body(g, k)]
  <2>1. f = [k \in X |-> Body(f, k)]
    <3> HIDE DEF X, A, Body
    <3> QED
      BY <1>7, <1>8
  <2> HIDE DEF X, Body
  <2> QED
    BY <1>9, <2>1, Zenon
<1>11. Greedy(hay, parts, first) = g[m]
  BY <1>1, <1>3, <1>9 DEF Greedy, EndOf
<1>12. \A k \in X : g[k] \in A
  <2> DEFINE T == {k \in Nat : k + 1 \in X => g[k + 1] \in A}
  <2>1. 0 \in T
    <3>1. 1 \in X
      BY <1>2
    <3>2. g[1] = ended
      BY <1>10, <3>1
    <3> QED
      BY <3>2
  <2>2. ASSUME NEW k \in Nat, k \in T PROVE k + 1 \in T
    <3> SUFFICES ASSUME (k + 1) + 1 \in X PROVE g[(k + 1) + 1] \in A
      OBVIOUS
    <3>1. PICK j \in X : j = (k + 1) + 1 /\ j - 1 = k + 1 /\ j /= 1 /\ j - 1 \in X
      OBVIOUS
    <3>2. g[j] = EndOf(j, g[j - 1])
      BY <1>10, <3>1
    <3>3. g[j - 1] \in A
      BY <2>2, <3>1
    <3> HIDE DEF X, A
    <3> QED
      BY <1>4, <3>1, <3>2, <3>3
  <2>3. \A k \in Nat : k \in T
    <3> HIDE DEF T
    <3> QED
      BY <2>1, <2>2, NumberInduction
  <2> SUFFICES ASSUME NEW k \in X PROVE g[k] \in A
    OBVIOUS
  <2>4. PICK j \in Nat : j + 1 = k
    <3>1. k - 1 \in Nat /\ (k - 1) + 1 = k
      OBVIOUS
    <3> QED
      BY <3>1
  <2>5. j \in T
    BY <2>3
  <2> QED
    BY <2>4, <2>5
<1>13. 1 \in X /\ \A k \in 2..m : k \in X /\ k /= 1
  BY <1>2
<1>14. g \in [X -> A]
  <2> HIDE DEF X, A, Body
  <2> QED
    BY <1>10, <1>12
<1>15. g[1] = ended /\ \A k \in 2..m : g[k] = EndOf(k, g[k - 1])
  <2>1. \A k \in X : g[k] = Body(g, k)
    <3> HIDE DEF X, Body
    <3> QED
      BY <1>10
  <2> HIDE DEF X
  <2> QED
    BY <1>13, <2>1
<1>16. Taking(hay, parts, first, g)
  <2>1. g \in [1..Len(parts) -> {0} \cup first..Len(hay)]
    BY <1>1, <1>14
  <2>2. g[1] = first + Len(parts[1]) - 1
    BY <1>3, <1>15
  <2>3. \A k \in 2..Len(parts) : g[k] = EndOf(k, g[k - 1])
    BY <1>1, <1>15
  <2> HIDE DEF X, A
  <2> QED
    BY <2>1, <2>2, <2>3 DEF Taking, EndOf
<1> QED
  BY <1>1, <1>11, <1>16

\* Parts that are taken end at or after the first one's start.
LEMMA GreedyIs ==
    ASSUME NEW hay \in Seq(Chars), NEW parts, parts \in Seq(Seq(Chars) \ {<<>>}),
           parts /= <<>>, NEW first \in 1..Len(hay),
           first + Len(parts[1]) - 1 \in first..Len(hay)
    PROVE  Greedy(hay, parts, first) \in {0} \cup first..Len(hay)
<1>1. PICK g : /\ Taking(hay, parts, first, g)
               /\ Greedy(hay, parts, first) = g[Len(parts)]
  BY GreedySteps
<1>2. Len(parts) \in 1..Len(parts)
  <2>1. PICK B : B = Seq(Chars) \ {<<>>}
    OBVIOUS
  <2>2. parts \in Seq(B)
    BY <2>1
  <2> QED
    BY <2>2
<1> QED
  BY <1>1, <1>2, ZenonT(40) DEF Taking

\* The spans of a text of n characters, and none.
Matches(n) == {<<>>} \cup {p \in (1..n) \X (1..n) : p[1] <= p[2]}

\* s[from] is where the parts are found at or after from.
Seeks(n, hay, parts, s) ==
    \A from \in 1..(Len(hay) + 1) :
        LET first == Find(hay, parts[1], from)
            last == Greedy(hay, parts, first) IN
        s[from] = IF first = 0 \/ last = 0 THEN <<>>
                  ELSE IF Len(parts) = 1 \/ n[last].at - n[first].at < MaxElided
                    THEN <<n[first].at, n[last].at>>
                  ELSE s[first + 1]

\* s searches the text whose characters are in n, from its start on.
Finds(text, n, parts, s) ==
    /\ Seeks(n, CharsOf(n), parts, s)
    /\ \A from \in 1..(Len(n) + 1) : s[from] \in Matches(Len(text))
    /\ Search(n, CharsOf(n), parts) =
          IF Len(FlattenSeq(parts)) < MinQuote THEN <<>> ELSE s[1]

\* A search goes on from start to start.
LEMMA SearchSteps ==
    ASSUME NEW text \in Seq(Chars), NEW n, Maps(text, n, 1),
           NEW parts, parts \in Seq(Seq(Chars) \ {<<>>}), parts /= <<>>
    PROVE  \E s : Finds(text, n, parts, s)
<1>1. n \in Seq(Puts)
  BY DEF Maps
<1>2. PICK l \in Nat, len \in Nat : l = Len(n) /\ len = Len(text)
  BY <1>1
<1>3. PICK hay \in Seq(Chars) : hay = CharsOf(n) /\ Len(hay) = l
  BY <1>1, <1>2, CharsOfIs
<1>4. PICK part \in Seq(Chars) : part = parts[1] /\ part /= <<>>
  <2>1. PICK B : B = Seq(Chars) \ {<<>>}
    OBVIOUS
  <2>2. parts \in Seq(B)
    BY <2>1
  <2>3. parts[1] \in B
    BY <2>2
  <2> QED
    BY <2>1, <2>3
<1> DEFINE X == 1..(l + 1)
           A == Matches(len)
           Starts(from) == Find(hay, part, from)
           Stops(from) == Greedy(hay, parts, Starts(from))
           Missing(from) == Starts(from) = 0 \/ Stops(from) = 0
           Near(from) == \/ Len(parts) = 1
                         \/ n[Stops(from)].at - n[Starts(from)].at < MaxElided
           Place(from) == <<n[Starts(from)].at, n[Stops(from)].at>>
           stop == {from \in X : Missing(from) \/ Near(from)}
           base == [from \in X |-> IF Missing(from) THEN <<>> ELSE Place(from)]
           next == [from \in X |-> Starts(from) + 1]
           rank == [from \in X |-> l + 1 - from]
           comb == [w \in X \X A |-> w[2]]
           Body(f, from) == IF Missing(from) THEN <<>>
                            ELSE IF Near(from) THEN Place(from)
                            ELSE f[Starts(from) + 1]
<1>5. \A from \in X : ~Missing(from) => /\ Starts(from) \in from..l
                                        /\ Place(from) \in A
  <2> SUFFICES ASSUME NEW from \in X, ~Missing(from)
               PROVE  Starts(from) \in from..l /\ Place(from) \in A
    OBVIOUS
  <2>1. Starts(from) \in from..l /\ Starts(from) + Len(part) - 1 \in from..l
    BY <1>3, <1>4, FindIs
  <2>2. PICK p \in from..l : p = Starts(from)
    BY <2>1
  <2>3. p \in 1..Len(hay) /\ p + Len(parts[1]) - 1 \in p..Len(hay)
    <3>1. PICK k \in Nat : k = Len(part) /\ k > 0
      BY <1>4
    <3>2. p + k - 1 \in from..l
      BY <2>1, <2>2, <3>1
    <3>3. p + k - 1 \in p..l
      BY <3>1, <3>2
    <3> QED
      BY <1>3, <1>4, <3>1, <3>3
  <2>4. Greedy(hay, parts, p) \in {0} \cup p..Len(hay)
    BY <2>3, GreedyIs
  <2>5. PICK q \in p..l : q = Stops(from)
    BY <1>3, <2>2, <2>4
  <2>6. /\ p \in 1..l /\ q \in 1..l /\ p <= q
    OBVIOUS
  <2>7. /\ n[p] \in Puts /\ n[q] \in Puts
    BY <1>1, <1>2, <2>6
  <2>8. /\ 1 <= n[p].at /\ n[p].at <= len /\ 1 <= n[q].at /\ n[q].at <= len
        /\ n[p].at <= n[q].at
    BY <1>2, <2>6 DEF Maps
  <2>9. PICK a \in Nat, b \in Nat : a = n[p].at /\ b = n[q].at
    BY <2>7 DEF Puts
  <2>10. <<a, b>> \in A
    <3>1. a \in 1..len /\ b \in 1..len /\ a <= b
      BY <2>8, <2>9
    <3>2. <<a, b>> \in (1..len) \X (1..len) /\ <<a, b>>[1] <= <<a, b>>[2]
      BY <3>1
    <3> QED
      BY <3>2, Zenon DEF Matches
  <2> QED
    BY <2>1, <2>2, <2>5, <2>9, <2>10
<1> HIDE DEF Starts, Stops, Missing, Near, Place
<1>6. <<>> \in A
  BY DEF Matches
<1>7. Descends(X, stop, next, rank, l)
  <2> SUFFICES ASSUME NEW from \in X
               PROVE  /\ rank[from] \in 0..l
                      /\ from \notin stop =>
                            next[from] \in X /\ rank[next[from]] < rank[from]
    BY DEF Descends
  <2>1. rank[from] = l + 1 - from
    OBVIOUS
  <2>2. ASSUME from \notin stop
        PROVE  next[from] \in X /\ rank[next[from]] < rank[from]
    <3>1. PICK p \in from..l : p = Starts(from)
      BY <1>5, <2>2
    <3>2. next[from] = p + 1 /\ p + 1 \in X
      BY <3>1
    <3>3. rank[p + 1] = l + 1 - (p + 1)
      BY <3>2
    <3> QED
      BY <2>1, <3>2, <3>3
  <2> QED
    BY <2>1, <2>2
<1>8. Makes(A, X, stop, base, comb)
  <2> HIDE DEF A
  <2> QED
    BY <1>5, <1>6 DEF Makes
<1>9. PICK f \in [X -> A] : Computes(f, X, stop, base, next, comb)
  <2> HIDE DEF X, stop, base, next, rank, A, comb
  <2> QED
    BY <1>7, <1>8, RecursionExists
<1>10. \A from \in X : f[from] = Body(f, from)
  <2> SUFFICES ASSUME NEW from \in X PROVE f[from] = Body(f, from)
    OBVIOUS
  <2>1. f[from] = IF from \in stop THEN base[from] ELSE comb[<<from, f[next[from]]>>]
    BY <1>9 DEF Computes
  <2>2. ASSUME from \notin stop
        PROVE  comb[<<from, f[next[from]]>>] = f[Starts(from) + 1]
    <3>1. next[from] \in X /\ next[from] = Starts(from) + 1
      <4>1. next[from] \in X
        BY <1>7, <2>2 DEF Descends
      <4> QED
        BY <4>1
    <3>2. PICK a \in A : a = f[next[from]]
      BY <1>9, <3>1
    <3>3. comb[<<from, a>>] = a
      <4> HIDE DEF X, A
      <4> QED
        OBVIOUS
    <3> QED
      BY <3>1, <3>2, <3>3
  <2> QED
    BY <2>1, <2>2
<1>11. PICK g : g = CHOOSE h : h = [from \in X |-> Body(h, from)]
  OBVIOUS
<1>12. g = [from \in X |-> Body(g, from)]
  <2>1. f = [from \in X |-> Body(f, from)]
    <3> HIDE DEF X, A, Body
    <3> QED
      BY <1>9, <1>10
  <2> HIDE DEF X, Body
  <2> QED
    BY <1>11, <2>1, Zenon
<1>13. Search(n, CharsOf(n), parts) =
           IF Len(FlattenSeq(parts)) < MinQuote THEN <<>> ELSE g[1]
  BY <1>3, <1>4, <1>11 DEF Search, Starts, Stops, Missing, Near, Place
<1> DEFINE P == {from \in X : g[from] \in A}
<1>14. \A from \in X : from \in P
  <2>1. \A from \in X : (from \in stop \/ next[from] \in P) => from \in P
    <3> SUFFICES ASSUME NEW from \in X, from \in stop \/ next[from] \in P
                 PROVE  g[from] \in A
      OBVIOUS
    <3>1. g[from] = Body(g, from)
      <4> HIDE DEF X, Body
      <4> QED
        BY <1>12
    <3>2. CASE Missing(from)
      BY <1>6, <3>1, <3>2
    <3>3. CASE ~Missing(from) /\ Near(from)
      <4>1. Place(from) \in A
        BY <1>5, <3>3
      <4> HIDE DEF A
      <4> QED
        BY <3>1, <3>3, <4>1
    <3>4. CASE ~Missing(from) /\ ~Near(from)
      <4>1. next[from] = Starts(from) + 1 /\ next[from] \in P
        BY <3>4
      <4>2. g[Starts(from) + 1] \in A
        BY <4>1
      <4> HIDE DEF A
      <4> QED
        BY <3>1, <3>4, <4>2
    <3> QED
      BY <3>2, <3>3, <3>4
  <2> HIDE DEF X, P, stop, next, rank
  <2> QED
    BY <1>7, <2>1, RecursionInduction
<1>15. \A from \in X : g[from] = Body(g, from)
  <2> HIDE DEF X, Body
  <2> QED
    BY <1>12
<1>16. Seeks(n, hay, parts, g)
  <2> SUFFICES ASSUME NEW from \in X PROVE g[from] = Body(g, from)
    BY <1>3, <1>4 DEF Seeks, Starts, Stops, Missing, Near, Place
  <2> HIDE DEF X, Body
  <2> QED
    BY <1>15
<1>17. \A from \in X : g[from] \in A
  <2> HIDE DEF A
  <2> QED
    BY <1>14
<1> HIDE DEF A
<1> QED
  BY <1>2, <1>3, <1>13, <1>16, <1>17 DEF A, Finds

\* A search returns a span of the text, or none.
LEMMA SearchIs ==
    ASSUME NEW text \in Seq(Chars), NEW n, Maps(text, n, 1),
           NEW parts, parts \in Seq(Seq(Chars) \ {<<>>}), parts /= <<>>
    PROVE  Search(n, CharsOf(n), parts) \in Matches(Len(text))
<1>1. PICK s : Finds(text, n, parts, s)
  BY SearchSteps
<1>2. 1 \in 1..(Len(n) + 1)
  <2>1. n \in Seq(Puts)
    BY DEF Maps
  <2>2. Len(n) \in Nat
    BY <2>1
  <2> QED
    BY <2>2
<1>3. <<>> \in Matches(Len(text))
  BY DEF Matches
<1> QED
  BY <1>1, <1>2, <1>3 DEF Finds

\* find_quote() returns a span of the text, or none.
LEMMA FindQuoteIs ==
    ASSUME NEW text \in Seq(Chars), NEW quote, quote \in Seq(Seq(Chars))
    PROVE  FindQuote(text, quote) \in Matches(Len(text))
<1>1. PICK n : n = Normalize(text) /\ Maps(text, n, 1)
  BY NormalizeMaps
<1>2. PICK parts : parts = PartsOf(quote) /\ parts \in Seq(Seq(Chars) \ {<<>>})
  BY PartsOfIs
<1>3. FindQuote(text, quote) = Search(n, CharsOf(n), parts)
  BY <1>1, <1>2 DEF FindQuote
<1>4. CASE parts /= <<>>
  BY <1>1, <1>2, <1>3, <1>4, SearchIs
<1>5. CASE parts = <<>>
  <2>1. Len(FlattenSeq(parts)) < MinQuote
    <3>1. PICK E : E = Chars
      OBVIOUS
    <3>2. PICK h : Joins(h, parts, E)
      <4>1. parts \in Seq(Seq(E))
        BY <1>5
      <4> QED
        BY <4>1, FlattenJoins
    <3>3. PICK zero : zero = Len(parts) /\ zero = 0
      BY <1>5
    <3>4. FlattenSeq(parts) = <<>>
      BY <3>2, <3>3 DEF Joins
    <3>5. Len(<<>>) = 0
      OBVIOUS
    <3>6. MinQuote \in Nat /\ MinQuote > 0
      BY CitingAssumption
    <3> QED
      BY <3>4, <3>5, <3>6
  <2>2. Search(n, CharsOf(n), parts) = <<>>
    BY <2>1 DEF Search
  <2> QED
    BY <1>3, <2>2 DEF Matches
<1> QED
  BY <1>4, <1>5

-----------------------------------------------------------------------------
(* Where the parts of a quote stand.                                       *)

\* Parts are texts that are not empty.
LEMMA PartIs ==
    ASSUME NEW parts, parts \in Seq(Seq(Chars) \ {<<>>})
    PROVE  /\ Len(parts) \in Nat /\ (parts /= <<>> => Len(parts) > 0)
           /\ \A k \in 1..Len(parts) :
                 /\ parts[k] \in Seq(Chars) /\ parts[k] /= <<>>
                 /\ Len(parts[k]) \in Nat /\ Len(parts[k]) > 0
<1>1. PICK B : B = Seq(Chars) \ {<<>>}
  OBVIOUS
<1>2. parts \in Seq(B)
  BY <1>1
<1>3. /\ Len(parts) \in Nat /\ (parts /= <<>> => Len(parts) > 0)
      /\ \A k \in 1..Len(parts) : parts[k] \in B
  BY <1>2
<1>4. \A p \in B : /\ p \in Seq(Chars) /\ p /= <<>>
                   /\ Len(p) \in Nat /\ Len(p) > 0
  BY <1>1
<1> QED
  BY <1>3, <1>4

\* A part that is found stands there ...
LEMMA FoundOccurs ==
    ASSUME NEW hay \in Seq(Chars), NEW part \in Seq(Chars), part /= <<>>,
           NEW from \in Nat, from > 0, Find(hay, part, from) /= 0
    PROVE  Occurs(hay, part, Find(hay, part, from))
<1>1. PICK at : at = {i \in from..(Len(hay) - Len(part) + 1) :
                        SubSeq(hay, i, i + Len(part) - 1) = part}
  OBVIOUS
<1>2. at /= {} /\ Find(hay, part, from) = Min(at)
  BY <1>1 DEF Find
<1>3. PICK n \in Nat, l \in Nat : n = Len(hay) /\ l = Len(part)
  OBVIOUS
<1>4. l > 0
  BY <1>3
<1>5. at \subseteq from..n
  BY <1>1, <1>3, <1>4
<1>6. Min(at) \in at
  BY <1>2, <1>5, Ends
<1>7. PICK p \in from..(n - l + 1) : p = Min(at) /\ SubSeq(hay, p, p + l - 1) = part
  BY <1>1, <1>3, <1>6
<1>8. p + l - 1 <= n
  BY <1>3
<1> QED
  BY <1>2, <1>3, <1>7, <1>8 DEF Occurs

\* ... and nowhere before.
LEMMA OccursFound ==
    ASSUME NEW hay \in Seq(Chars), NEW part \in Seq(Chars), part /= <<>>,
           NEW from \in Nat, from > 0, NEW i \in Nat, from <= i,
           Occurs(hay, part, i)
    PROVE  Find(hay, part, from) \in from..i
<1>1. PICK at : at = {j \in from..(Len(hay) - Len(part) + 1) :
                        SubSeq(hay, j, j + Len(part) - 1) = part}
  OBVIOUS
<1>2. PICK n \in Nat, l \in Nat : n = Len(hay) /\ l = Len(part)
  OBVIOUS
<1>3. l > 0
  BY <1>2
<1>4. at \subseteq from..n
  BY <1>1, <1>2, <1>3
<1>5. i + l - 1 <= n /\ SubSeq(hay, i, i + l - 1) = part
  BY <1>2 DEF Occurs
<1>6. i \in at
  BY <1>1, <1>2, <1>5
<1>7. Min(at) \in at /\ Min(at) <= i
  BY <1>4, <1>6, Ends
<1>8. Find(hay, part, from) = Min(at)
  BY <1>1, <1>6 DEF Find
<1>9. PICK m \in from..n : m = Min(at)
  BY <1>4, <1>7
<1> QED
  BY <1>7, <1>8, <1>9

\* The lengths of the parts, as numbers.
LEMMA SizesAre ==
    ASSUME NEW parts, parts \in Seq(Seq(Chars) \ {<<>>})
    PROVE  \E len \in [1..Len(parts) -> Nat \ {0}] :
              \A k \in 1..Len(parts) : len[k] = Len(parts[k])
<1>1. \A k \in 1..Len(parts) : Len(parts[k]) \in Nat \ {0}
  BY PartIs
<1> DEFINE len == [k \in 1..Len(parts) |-> Len(parts[k])]
<1>2. len \in [1..Len(parts) -> Nat \ {0}]
  BY <1>1
<1> QED
  BY <1>2

\* The parts stand at at, their lengths are len, and none touches another.
Apart(hay, parts, at, len) ==
    /\ at \in [1..Len(parts) -> Nat \ {0}]
    /\ len \in [1..Len(parts) -> Nat \ {0}]
    /\ \A k \in 1..Len(parts) :
          /\ len[k] = Len(parts[k])
          /\ Occurs(hay, parts[k], at[k])
          /\ at[k] + len[k] - 1 <= Len(hay)
    /\ \A k \in 1..(Len(parts) - 1) : at[k] + len[k] <= at[k + 1]
    /\ Reach(parts, at) = at[Len(parts)] + len[Len(parts)] - 1

\* So it is with every placing ...
LEMMA PlacingIs ==
    ASSUME NEW hay \in Seq(Chars), NEW parts, parts \in Seq(Seq(Chars) \ {<<>>}),
           parts /= <<>>, NEW at \in Placings(hay, parts)
    PROVE  \E len : Apart(hay, parts, at, len)
<1>1. PICK n \in Nat, m \in Nat : n = Len(hay) /\ m = Len(parts) /\ m > 0
  BY PartIs
<1>2. PICK len \in [1..m -> Nat \ {0}] : \A k \in 1..m : len[k] = Len(parts[k])
  BY <1>1, SizesAre
<1>3. at \in [1..m -> 1..n]
  BY <1>1 DEF Placings
<1>4. \A k \in 1..m : /\ Occurs(hay, parts[k], at[k])
                      /\ k < m => at[k] + Len(parts[k]) <= at[k + 1]
  BY <1>1 DEF Placings
<1>5. \A k \in 1..m : at[k] + len[k] - 1 <= n
  BY <1>1, <1>2, <1>4 DEF Occurs
<1>6. Reach(parts, at) = at[m] + len[m] - 1
  <2>1. m \in 1..m
    BY <1>1
  <2>2. Reach(parts, at) = at[m] + Len(parts[m]) - 1
    BY <1>1 DEF Reach, Last
  <2> QED
    BY <1>2, <2>1, <2>2
<1>7. \A k \in 1..(m - 1) : at[k] + len[k] <= at[k + 1]
  <2>1. \A k \in 1..(m - 1) : k \in 1..m /\ k < m
    OBVIOUS
  <2> QED
    BY <1>2, <1>4, <2>1
<1>8. at \in [1..m -> Nat \ {0}]
  <2>1. 1..n \subseteq Nat \ {0}
    OBVIOUS
  <2> QED
    BY <1>3, <2>1
<1>9. Apart(hay, parts, at, len)
  BY <1>1, <1>2, <1>4, <1>5, <1>6, <1>7, <1>8 DEF Apart
<1> QED
  BY <1>9

\* ... and it stands within the text.
LEMMA PlacingIn ==
    ASSUME NEW hay \in Seq(Chars), NEW parts, parts \in Seq(Seq(Chars) \ {<<>>}),
           parts /= <<>>, NEW at, NEW len, Apart(hay, parts, at, len)
    PROVE  /\ \A k \in 1..Len(parts) : at[k] \in 1..Len(hay)
           /\ Reach(parts, at) \in 1..Len(hay)
<1>1. PICK n \in Nat, m \in Nat : n = Len(hay) /\ m = Len(parts) /\ m > 0
  BY PartIs
<1>2. /\ at \in [1..m -> Nat \ {0}] /\ len \in [1..m -> Nat \ {0}]
      /\ \A k \in 1..m : at[k] + len[k] - 1 <= n
      /\ Reach(parts, at) = at[m] + len[m] - 1
  BY <1>1 DEF Apart
<1>3. ASSUME NEW k \in 1..m
      PROVE  at[k] \in 1..n /\ at[k] + len[k] - 1 \in 1..n
  <2>1. PICK a \in Nat \ {0}, l \in Nat \ {0} : a = at[k] /\ l = len[k]
    BY <1>2
  <2>2. a + l - 1 <= n
    BY <1>2, <2>1
  <2>3. a \in 1..n /\ a + l - 1 \in 1..n
    BY <2>2
  <2> QED
    BY <2>1, <2>3
<1>4. m \in 1..m
  BY <1>1
<1> QED
  BY <1>1, <1>2, <1>3, <1>4

\* What stands apart is in order.
LEMMA ApartInOrder ==
    ASSUME NEW m \in Nat, NEW at \in [1..m -> Nat], NEW len \in [1..m -> Nat \ {0}],
           \A k \in 1..(m - 1) : at[k] + len[k] <= at[k + 1]
    PROVE  \A k \in 1..m : at[1] <= at[k] /\ at[k] + len[k] <= at[m] + len[m]
<1> DEFINE S == {k \in Nat : k + 1 \in 1..m => at[1] <= at[k + 1]}
           P == {k \in 1..m : at[k] + len[k] <= at[m] + len[m]}
<1>1. \A k \in Nat : k \in S
  <2>1. 0 \in S
    OBVIOUS
  <2>2. ASSUME NEW k \in Nat, k \in S PROVE k + 1 \in S
    <3> SUFFICES ASSUME (k + 1) + 1 \in 1..m PROVE at[1] <= at[(k + 1) + 1]
      OBVIOUS
    <3>1. k + 1 \in 1..(m - 1) /\ k + 1 \in 1..m /\ 1 \in 1..m
      OBVIOUS
    <3>2. at[1] <= at[k + 1]
      BY <2>2, <3>1
    <3>3. at[k + 1] + len[k + 1] <= at[(k + 1) + 1]
      BY <3>1
    <3> QED
      BY <3>1, <3>2, <3>3
  <2> HIDE DEF S
  <2> QED
    BY <2>1, <2>2, NumberInduction
<1>2. \A k \in 1..m : k \in P
  <2>1. ASSUME NEW k \in 1..m, \A j \in (k + 1)..m : j \in P PROVE k \in P
    <3>1. CASE k = m
      BY <3>1
    <3>2. CASE k < m
      <4>1. k \in 1..(m - 1) /\ k + 1 \in 1..m /\ k + 1 \in P
        BY <2>1, <3>2
      <4> QED
        BY <4>1, SMTT(40)
    <3> QED
      BY <3>1, <3>2
  <2> HIDE DEF P
  <2> QED
    BY <2>1, DownInduction
<1>3. \A k \in 1..m : at[1] <= at[k]
  <2> SUFFICES ASSUME NEW k \in 1..m PROVE at[1] <= at[k]
    OBVIOUS
  <2>1. k - 1 \in Nat /\ (k - 1) + 1 = k
    OBVIOUS
  <2>2. k - 1 \in S
    BY <1>1, <2>1
  <2> QED
    BY <2>1, <2>2
<1> QED
  BY <1>2, <1>3

\* No part starts before the first or ends after the last.
LEMMA PlacingWithin ==
    ASSUME NEW hay \in Seq(Chars), NEW parts, parts \in Seq(Seq(Chars) \ {<<>>}),
           parts /= <<>>, NEW at, NEW len, Apart(hay, parts, at, len)
    PROVE  \A k \in 1..Len(parts) : /\ at[1] <= at[k]
                                    /\ at[k] + len[k] <= Reach(parts, at) + 1
<1>1. PICK m \in Nat : m = Len(parts) /\ m > 0
  BY PartIs
<1>2. /\ at \in [1..m -> Nat] /\ len \in [1..m -> Nat \ {0}]
      /\ \A k \in 1..(m - 1) : at[k] + len[k] <= at[k + 1]
      /\ Reach(parts, at) = at[m] + len[m] - 1
  BY <1>1 DEF Apart
<1>3. \A k \in 1..m : at[1] <= at[k] /\ at[k] + len[k] <= at[m] + len[m]
  BY <1>2, ApartInOrder
<1>4. Reach(parts, at) + 1 = at[m] + len[m]
  <2>1. PICK a \in Nat, l \in Nat : a = at[m] /\ l = len[m]
    <3>1. m \in 1..m
      BY <1>1
    <3> QED
      BY <1>2, <3>1
  <2>2. (a + l - 1) + 1 = a + l
    OBVIOUS
  <2> QED
    BY <1>2, <2>1, <2>2
<1> QED
  BY <1>1, <1>3, <1>4

-----------------------------------------------------------------------------

\* A part that stands after e is found after e, and there or before.
LEMMA FoundEarly ==
    ASSUME NEW hay \in Seq(Chars), NEW part \in Seq(Chars), part /= <<>>,
           NEW e \in Nat, NEW q \in Nat, e < q, Occurs(hay, part, q)
    PROVE  /\ Find(hay, part, e + 1) /= 0
           /\ Find(hay, part, e + 1) + Len(part) - 1 \in 1..(q + Len(part) - 1)
<1>1. PICK from \in Nat : from = e + 1 /\ from > 0 /\ from <= q
  OBVIOUS
<1>2. PICK p \in from..q : p = Find(hay, part, from)
  BY <1>1, OccursFound
<1>3. PICK l \in Nat : l = Len(part) /\ l > 0
  OBVIOUS
<1>4. p /= 0 /\ p + l - 1 \in 1..(q + l - 1)
  BY <1>1, <1>2, <1>3
<1> QED
  BY <1>1, <1>2, <1>3, <1>4

\* What ends before the next one stands ends early.
LEMMA EarlyEnds ==
    ASSUME NEW m \in Nat, m > 0, NEW at \in [1..m -> Nat \ {0}],
           NEW len \in [1..m -> Nat \ {0}], NEW g,
           \A k \in 1..(m - 1) : at[k] + len[k] <= at[k + 1],
           g[1] = at[1] + len[1] - 1,
           \A k \in 1..(m - 1) : g[k] \in 1..(at[k + 1] - 1) =>
               g[k + 1] \in 1..(at[k + 1] + len[k + 1] - 1)
    PROVE  g[m] \in 1..(at[m] + len[m] - 1)
<1> DEFINE S == {k \in Nat : k + 1 \in 1..m =>
                                g[k + 1] \in 1..(at[k + 1] + len[k + 1] - 1)}
<1>1. 0 \in S
  <2>1. 1 \in 1..m
    OBVIOUS
  <2>2. PICK a \in Nat \ {0}, b \in Nat \ {0} : a = at[1] /\ b = len[1]
    BY <2>1
  <2>3. a + b - 1 \in 1..(a + b - 1)
    OBVIOUS
  <2> QED
    BY <2>2, <2>3
<1>2. ASSUME NEW i \in Nat, i \in S PROVE i + 1 \in S
  <2> SUFFICES ASSUME (i + 1) + 1 \in 1..m
               PROVE  g[(i + 1) + 1] \in 1..(at[(i + 1) + 1] + len[(i + 1) + 1] - 1)
    OBVIOUS
  <2>1. PICK j \in 1..(m - 1) : j = i + 1
    OBVIOUS
  <2>2. j \in 1..m /\ j + 1 \in 1..m
    OBVIOUS
  <2>3. g[j] \in 1..(at[j] + len[j] - 1)
    BY <1>2, <2>1, <2>2
  <2>4. PICK a \in Nat \ {0}, b \in Nat \ {0}, c \in Nat \ {0} :
            a = at[j] /\ b = len[j] /\ c = at[j + 1]
    BY <2>2
  <2>5. a + b <= c
    BY <2>4
  <2>6. PICK e \in 1..(a + b - 1) : e = g[j]
    BY <2>3, <2>4
  <2>7. e \in 1..(c - 1)
    BY <2>5
  <2>8. g[j + 1] \in 1..(at[j + 1] + len[j + 1] - 1)
    BY <2>4, <2>6, <2>7
  <2> QED
    BY <2>1, <2>8
<1>3. \A k \in Nat : k \in S
  <2> HIDE DEF S
  <2> QED
    BY <1>1, <1>2, NumberInduction
<1>4. m - 1 \in Nat /\ (m - 1) + 1 = m /\ m \in 1..m
  OBVIOUS
<1>5. m - 1 \in S
  BY <1>3, <1>4
<1> QED
  BY <1>4, <1>5

\* Taken as early as it can be, no part ends later than in any other placing.
LEMMA GreedyLeast ==
    ASSUME NEW hay \in Seq(Chars), NEW parts, parts \in Seq(Seq(Chars) \ {<<>>}),
           parts /= <<>>, NEW at \in Placings(hay, parts)
    PROVE  Greedy(hay, parts, at[1]) \in 1..Reach(parts, at)
<1>1. PICK n \in Nat, m \in Nat : n = Len(hay) /\ m = Len(parts) /\ m > 0
  BY PartIs
<1>2. \A k \in 1..m : /\ parts[k] \in Seq(Chars) /\ parts[k] /= <<>>
                      /\ Len(parts[k]) \in Nat /\ Len(parts[k]) > 0
  BY <1>1, PartIs
<1>3. PICK len : Apart(hay, parts, at, len)
  BY PlacingIs
<1>4. /\ at \in [1..m -> Nat \ {0}] /\ len \in [1..m -> Nat \ {0}]
      /\ \A k \in 1..m : len[k] = Len(parts[k]) /\ Occurs(hay, parts[k], at[k])
      /\ \A k \in 1..(m - 1) : at[k] + len[k] <= at[k + 1]
      /\ Reach(parts, at) = at[m] + len[m] - 1
  BY <1>1, <1>3 DEF Apart
<1>5. PICK first \in 1..n : first = at[1]
  BY <1>1, <1>3, PlacingIn, SMTT(40)
<1>6. first + Len(parts[1]) - 1 \in first..n
  <2>1. PICK l \in Nat \ {0} : l = Len(parts[1])
    BY <1>1, <1>2
  <2>2. first + l - 1 <= n
    BY <1>1, <1>4, <1>5, <2>1 DEF Occurs
  <2>3. first + l - 1 \in first..n
    BY <2>2
  <2> QED
    BY <2>1, <2>3
<1>7. PICK g : Taking(hay, parts, first, g) /\ Greedy(hay, parts, first) = g[m]
  BY <1>1, <1>6, GreedySteps
<1>8. \A k \in 1..m : g[k] \in {0} \cup first..n
  BY <1>1, <1>7 DEF Taking
<1>9. g[1] = first + Len(parts[1]) - 1
  BY <1>7 DEF Taking
<1>10. \A k \in 2..m :
          g[k] = IF g[k - 1] = 0 THEN 0
                 ELSE LET p == Find(hay, parts[k], g[k - 1] + 1) IN
                      IF p = 0 THEN 0 ELSE p + Len(parts[k]) - 1
  BY <1>1, <1>7 DEF Taking
<1>11. ASSUME NEW k \in 1..(m - 1), g[k] \in 1..(at[k + 1] - 1)
       PROVE  g[k + 1] \in 1..(at[k + 1] + len[k + 1] - 1)
  <2>1. k + 1 \in 1..m /\ k + 1 \in 2..m /\ (k + 1) - 1 = k
    OBVIOUS
  <2>2. PICK q \in Nat \ {0}, part \in Seq(Chars) :
            q = at[k + 1] /\ part = parts[k + 1] /\ part /= <<>>
    BY <1>2, <1>4, <2>1
  <2>3. PICK e \in 1..(q - 1) : e = g[k]
    BY <1>11, <2>2
  <2>4. e \in Nat /\ e < q /\ e /= 0
    OBVIOUS
  <2>5. Occurs(hay, part, q)
    BY <1>4, <2>1, <2>2
  <2>6. /\ Find(hay, part, e + 1) /= 0
        /\ Find(hay, part, e + 1) + Len(part) - 1 \in 1..(q + Len(part) - 1)
    BY <2>2, <2>4, <2>5, FoundEarly
  <2>7. g[k + 1] = Find(hay, part, e + 1) + Len(part) - 1
    BY <1>10, <2>1, <2>2, <2>3, <2>4, <2>6
  <2>8. len[k + 1] = Len(part)
    BY <1>4, <2>1, <2>2
  <2> QED
    BY <2>2, <2>6, <2>7, <2>8
<1>12. g[1] = at[1] + len[1] - 1
  <2>1. 1 \in 1..m
    BY <1>1
  <2> QED
    BY <1>4, <1>5, <1>9, <2>1
<1>13. g[m] \in 1..(at[m] + len[m] - 1)
  BY <1>1, <1>4, <1>11, <1>12, EarlyEnds
<1> QED
  BY <1>4, <1>5, <1>7, <1>13

\* Parts that were taken stand there.
LEMMA GreedyPlaces ==
    ASSUME NEW hay \in Seq(Chars), NEW parts, parts \in Seq(Seq(Chars) \ {<<>>}),
           parts /= <<>>, NEW first \in 1..Len(hay),
           Occurs(hay, parts[1], first), Greedy(hay, parts, first) /= 0
    PROVE  \E at \in Placings(hay, parts) :
              at[1] = first /\ Reach(parts, at) = Greedy(hay, parts, first)
<1>1. PICK n \in Nat, m \in Nat : n = Len(hay) /\ m = Len(parts) /\ m > 0
  BY PartIs
<1>2. \A k \in 1..m : /\ parts[k] \in Seq(Chars) /\ parts[k] /= <<>>
                      /\ Len(parts[k]) \in Nat /\ Len(parts[k]) > 0
  BY <1>1, PartIs
<1>3. first + Len(parts[1]) - 1 \in first..n
  <2>1. PICK l \in Nat : l = Len(parts[1]) /\ l > 0
    BY <1>1, <1>2
  <2>2. first + l - 1 <= n
    BY <1>1, <2>1 DEF Occurs
  <2> QED
    BY <1>1, <2>1, <2>2
<1>4. PICK g : Taking(hay, parts, first, g) /\ Greedy(hay, parts, first) = g[m]
  BY <1>1, <1>3, GreedySteps
<1>5. \A k \in 1..m : g[k] \in {0} \cup first..n
  BY <1>1, <1>4 DEF Taking
<1>6. g[1] = first + Len(parts[1]) - 1
  BY <1>4 DEF Taking
<1>7. \A k \in 2..m :
          g[k] = IF g[k - 1] = 0 THEN 0
                 ELSE LET p == Find(hay, parts[k], g[k - 1] + 1) IN
                      IF p = 0 THEN 0 ELSE p + Len(parts[k]) - 1
  BY <1>1, <1>4 DEF Taking
<1> DEFINE P == {k \in 1..m : g[k] /= 0}
<1>8. \A k \in 1..m : k \in P
  <2>1. ASSUME NEW k \in 1..m, \A j \in (k + 1)..m : j \in P PROVE k \in P
    <3>1. CASE k = m
      BY <1>4, <3>1
    <3>2. CASE k < m
      <4>1. k + 1 \in 2..m /\ (k + 1) - 1 = k /\ k + 1 \in P
        BY <2>1, <3>2
      <4>2. g[k + 1] /= 0
        BY <4>1
      <4> QED
        BY <1>7, <4>1, <4>2
    <3> QED
      BY <3>1, <3>2
  <2> HIDE DEF P
  <2> QED
    BY <2>1, DownInduction
<1>9. PICK len \in [1..m -> Nat \ {0}] : \A k \in 1..m : len[k] = Len(parts[k])
  BY <1>1, SizesAre
<1> DEFINE at == [k \in 1..m |-> g[k] - len[k] + 1]
<1>10. at[1] = first
  <2>1. PICK l \in Nat : 1 \in 1..m /\ l = len[1]
    BY <1>1, <1>9
  <2>2. (first + l - 1) - l + 1 = first
    OBVIOUS
  <2> QED
    BY <1>6, <1>9, <2>1, <2>2
<1>11. ASSUME NEW k \in 2..m
       PROVE  /\ at[k] \in 1..n /\ Occurs(hay, parts[k], at[k])
              /\ at[k - 1] + len[k - 1] <= at[k]
  <2>1. k \in 1..m /\ k - 1 \in 1..m /\ k \in P /\ k - 1 \in P
    BY <1>8
  <2>2. PICK e \in first..n : e = g[k - 1] /\ e /= 0
    BY <1>5, <2>1
  <2>3. PICK part \in Seq(Chars) : part = parts[k] /\ part /= <<>>
    BY <1>2, <2>1
  <2>4. PICK l \in Nat, h \in Nat : l = len[k] /\ h = len[k - 1]
    BY <1>9, <2>1
  <2>5. Find(hay, part, e + 1) /= 0 /\ g[k] = Find(hay, part, e + 1) + l - 1
    <3>1. k \in P /\ l = Len(part)
      BY <1>9, <2>1, <2>3, <2>4
    <3> QED
      BY <1>7, <2>2, <2>3, <3>1
  <2>6. e + 1 \in Nat /\ e + 1 > 0
    BY <2>2, SMTT(40)
  <2>7. PICK p \in (e + 1)..n : p = Find(hay, part, e + 1)
    BY <1>1, <2>3, <2>5, <2>6, FindIs
  <2>8. Occurs(hay, part, p)
    BY <2>3, <2>5, <2>6, <2>7, FoundOccurs
  <2>9. (p + l - 1) - l + 1 = p /\ (e - h + 1) + h <= p /\ p \in 1..n
    <3>1. (p + l - 1) - l + 1 = p
      OBVIOUS
    <3>2. (e - h + 1) + h = e + 1
      OBVIOUS
    <3> QED
      BY <3>1, <3>2
  <2>10. at[k] = p /\ at[k - 1] = e - h + 1
    <3>1. at[k] = g[k] - l + 1 /\ at[k - 1] = e - h + 1
      BY <2>1, <2>2, <2>4
    <3>2. g[k] = p + l - 1
      BY <2>5, <2>7
    <3> QED
      BY <2>9, <3>1, <3>2
  <2>11. at[k - 1] + len[k - 1] <= at[k]
    BY <2>4, <2>9, <2>10
  <2>12. Occurs(hay, parts[k], at[k]) /\ at[k] \in 1..n
    BY <2>3, <2>8, <2>9, <2>10
  <2> QED
    BY <2>11, <2>12
<1>12. ASSUME NEW k \in 1..m
       PROVE  /\ at[k] \in 1..n /\ Occurs(hay, parts[k], at[k])
              /\ k < m => at[k] + Len(parts[k]) <= at[k + 1]
  <2> HIDE DEF at
  <2>1. at[k] \in 1..n /\ Occurs(hay, parts[k], at[k])
    BY <1>1, <1>10, <1>11
  <2>2. ASSUME k < m PROVE at[k] + Len(parts[k]) <= at[k + 1]
    <3>1. k + 1 \in 2..m /\ (k + 1) - 1 = k
      BY <2>2
    <3>2. at[(k + 1) - 1] + len[(k + 1) - 1] <= at[k + 1]
      BY <1>11, <3>1
    <3> QED
      BY <1>9, <3>1, <3>2
  <2> QED
    BY <2>1, <2>2
<1>13. at \in [1..m -> 1..n]
  BY <1>12
<1> HIDE DEF at
<1>14. at \in Placings(hay, parts)
  BY <1>1, <1>12, <1>13 DEF Placings
<1>15. Reach(parts, at) = at[m] + len[m] - 1
  <2>1. m \in 1..m
    BY <1>1
  <2>2. Reach(parts, at) = at[m] + Len(parts[m]) - 1
    BY <1>1 DEF Reach, Last
  <2> QED
    BY <1>9, <2>1, <2>2
<1>16. at[m] + len[m] - 1 = g[m]
  <2>1. PICK l \in Nat, e \in Nat : m \in 1..m /\ l = len[m] /\ e = g[m]
    BY <1>1, <1>5, <1>9
  <2>2. at[m] = e - l + 1
    BY <2>1 DEF at
  <2>3. (e - l + 1) + l - 1 = e
    OBVIOUS
  <2> QED
    BY <2>1, <2>2, <2>3
<1> QED
  BY <1>4, <1>10, <1>14, <1>15, <1>16

\* The first part may stand earlier, and the others are still reached.
LEMMA GreedyReaches ==
    ASSUME NEW hay \in Seq(Chars), NEW parts, parts \in Seq(Seq(Chars) \ {<<>>}),
           parts /= <<>>, NEW at \in Placings(hay, parts), NEW first \in 1..Len(hay),
           Occurs(hay, parts[1], first), first <= at[1]
    PROVE  Greedy(hay, parts, first) /= 0
<1>1. PICK n \in Nat, m \in Nat : n = Len(hay) /\ m = Len(parts) /\ m > 0
  BY PartIs
<1>2. PICK len : Apart(hay, parts, at, len)
  BY PlacingIs
<1>3. \A k \in 1..m : at[k] \in 1..n
  BY <1>1, <1>2, PlacingIn
<1>4. /\ len \in [1..m -> Nat \ {0}]
      /\ \A k \in 1..m : len[k] = Len(parts[k]) /\ Occurs(hay, parts[k], at[k])
      /\ \A k \in 1..(m - 1) : at[k] + len[k] <= at[k + 1]
  BY <1>1, <1>2 DEF Apart
<1>5. PICK p : p = [k \in 1..m |-> IF k = 1 THEN first ELSE at[k]]
  OBVIOUS
<1>6. p \in [1..m -> 1..n] /\ p[1] = first
  BY <1>1, <1>3, <1>5
<1>7. ASSUME NEW k \in 1..m
      PROVE  /\ Occurs(hay, parts[k], p[k])
             /\ k < m => p[k] + Len(parts[k]) <= p[k + 1]
  <2>1. Occurs(hay, parts[k], p[k])
    BY <1>4, <1>5
  <2>2. ASSUME k < m PROVE p[k] + Len(parts[k]) <= p[k + 1]
    <3>1. k \in 1..(m - 1) /\ k + 1 \in 1..m /\ k + 1 /= 1 /\ 1 \in 1..m
      BY <2>2
    <3>2. PICK a \in 1..n, b \in 1..n, c \in 1..n, l \in Nat :
              a = at[k] /\ b = p[k] /\ c = at[k + 1] /\ l = len[k]
      BY <1>3, <1>4, <1>6, <3>1
    <3>3. p[k + 1] = c
      BY <1>5, <3>1, <3>2
    <3>4. a + l <= c
      BY <1>4, <3>1, <3>2
    <3>5. b <= a
      <4>1. p[k] = IF k = 1 THEN first ELSE at[k]
        BY <1>5
      <4> QED
        BY <3>2, <4>1
    <3>6. b + l <= c
      BY <3>4, <3>5
    <3>7. Len(parts[k]) = l
      BY <1>4, <3>2
    <3> QED
      BY <3>2, <3>3, <3>6, <3>7
  <2> QED
    BY <2>1, <2>2
<1>8. p \in Placings(hay, parts)
  BY <1>1, <1>6, <1>7 DEF Placings
<1>9. Greedy(hay, parts, first) \in 1..Reach(parts, p)
  BY <1>6, <1>8, GreedyLeast
<1> QED
  BY <1>9

-----------------------------------------------------------------------------

\* at places the parts at or after from, close enough.
StandsFrom(n, hay, parts, from, at) ==
    at \in Placings(hay, parts) /\ from <= at[1] /\ Close(n, parts, at)

\* A search finds a placing that fits if there is one.
Seeking(n, hay, parts, s, from) ==
    /\ s[from] = <<>> => \A at : ~StandsFrom(n, hay, parts, from, at)
    /\ s[from] /= <<>> =>
          \E at : /\ StandsFrom(n, hay, parts, from, at)
                  /\ s[from] = <<n[at[1]].at, n[Reach(parts, at)].at>>

\* A pair is not the empty sequence.
LEMMA PairIsNone == ASSUME NEW a, NEW b PROVE <<a, b>> /= <<>>
OBVIOUS

\* From start to start: the search stops at the first that fits.
LEMMA SearchStep ==
    ASSUME NEW text, NEW n, Maps(text, n, 1),
           NEW hay \in Seq(Chars), hay = CharsOf(n), Len(hay) = Len(n),
           NEW parts, parts \in Seq(Seq(Chars) \ {<<>>}), parts /= <<>>,
           NEW s, Seeks(n, hay, parts, s), NEW from \in 1..(Len(hay) + 1),
           \A j \in (from + 1)..(Len(hay) + 1) : Seeking(n, hay, parts, s, j)
    PROVE  Seeking(n, hay, parts, s, from)
<1>1. PICK l \in Nat : l = Len(hay) /\ n \in Seq(Puts) /\ l = Len(n)
  BY DEF Maps
<1>2. PICK part \in Seq(Chars) : part = parts[1] /\ part /= <<>>
  BY PartIs
<1>3. PICK first : first = Find(hay, part, from)
  OBVIOUS
<1>4. PICK last : last = Greedy(hay, parts, first)
  OBVIOUS
<1> DEFINE Near == Len(parts) = 1 \/ n[last].at - n[first].at < MaxElided
<1>5. s[from] = IF first = 0 \/ last = 0 THEN <<>>
                ELSE IF Near THEN <<n[first].at, n[last].at>>
                ELSE s[first + 1]
  BY <1>2, <1>3, <1>4 DEF Seeks
<1>6. from \in Nat /\ from > 0
  BY <1>1
\* a placing at or after from is at or after first
<1>7. ASSUME NEW at \in Placings(hay, parts), from <= at[1]
      PROVE  first \in from..(at[1]) /\ at[1] \in 1..l
  <2>1. PICK len : Apart(hay, parts, at, len)
    BY PlacingIs
  <2>2. 1 \in 1..Len(parts)
    BY PartIs
  <2>3. PICK i \in 1..l : i = at[1]
    BY <1>1, <2>1, <2>2, PlacingIn
  <2>4. Occurs(hay, part, i)
    BY <1>2, <2>1, <2>2, <2>3 DEF Apart
  <2>5. i \in Nat /\ from <= i
    BY <1>7, <2>3
  <2>6. Find(hay, part, from) \in from..i
    BY <1>2, <1>6, <2>4, <2>5, OccursFound
  <2> QED
    BY <1>3, <2>3, <2>6
<1>8. ASSUME first /= 0
      PROVE  first \in from..l /\ first \in 1..l /\ Occurs(hay, part, first)
  <2>1. first \in from..l
    BY <1>1, <1>2, <1>3, <1>6, <1>8, FindIs
  <2>2. Occurs(hay, part, first)
    BY <1>2, <1>3, <1>6, <1>8, FoundOccurs
  <2> QED
    BY <1>6, <2>1, <2>2
<1>9. CASE first = 0
  <2>1. s[from] = <<>>
    BY <1>5, <1>9
  <2>2. ASSUME NEW at, StandsFrom(n, hay, parts, from, at) PROVE FALSE
    <3>1. first \in from..(at[1])
      BY <1>7, <2>2 DEF StandsFrom
    <3> QED
      BY <1>6, <1>9, <3>1
  <2> QED
    BY <2>1, <2>2 DEF Seeking
<1>10. CASE first /= 0 /\ last = 0
  <2>1. s[from] = <<>>
    BY <1>5, <1>10
  <2>2. ASSUME NEW at, StandsFrom(n, hay, parts, from, at) PROVE FALSE
    <3>1. at \in Placings(hay, parts) /\ first <= at[1]
      BY <1>6, <1>7, <2>2 DEF StandsFrom
    <3>2. first \in 1..Len(hay) /\ Occurs(hay, parts[1], first)
      BY <1>1, <1>2, <1>8, <1>10
    <3>3. Greedy(hay, parts, first) /= 0
      BY <3>1, <3>2, GreedyReaches
    <3> QED
      BY <1>4, <1>10, <3>3
  <2> QED
    BY <2>1, <2>2 DEF Seeking
<1>11. CASE first /= 0 /\ last /= 0
  <2>1. first \in from..l /\ first \in 1..l /\ Occurs(hay, part, first)
    BY <1>8, <1>11
  <2>2. PICK at \in Placings(hay, parts) : at[1] = first /\ Reach(parts, at) = last
    <3>1. /\ first \in 1..Len(hay) /\ Occurs(hay, parts[1], first)
          /\ Greedy(hay, parts, first) /= 0
      BY <1>1, <1>2, <1>4, <1>11, <2>1
    <3>2. \E at \in Placings(hay, parts) :
              at[1] = first /\ Reach(parts, at) = Greedy(hay, parts, first)
      BY <3>1, GreedyPlaces, Zenon
    <3> QED
      BY <1>4, <3>2
  <2>3. Near <=> Close(n, parts, at)
    BY <2>2 DEF Close
  <2>4. PICK len : Apart(hay, parts, at, len)
    BY PlacingIs
  <2>5. last \in 1..l
    BY <1>1, <2>2, <2>4, PlacingIn
  <2>6. CASE Near
    <3>1. s[from] = <<n[first].at, n[last].at>>
      BY <1>5, <1>11, <2>6
    <3>2. s[from] /= <<>>
      BY <3>1, PairIsNone
    <3>3. StandsFrom(n, hay, parts, from, at)
      BY <2>1, <2>2, <2>3, <2>6 DEF StandsFrom
    <3> QED
      BY <2>2, <3>1, <3>2, <3>3 DEF Seeking
  <2>7. CASE ~Near
    <3>1. s[from] = s[first + 1]
      BY <1>5, <1>11, <2>7
    <3>2. first + 1 \in (from + 1)..(l + 1)
      BY <2>1
    <3>3. Seeking(n, hay, parts, s, first + 1)
      BY <1>1, <3>2
    <3>4. CASE s[from] /= <<>>
      <4>1. PICK p : /\ StandsFrom(n, hay, parts, first + 1, p)
                     /\ s[first + 1] = <<n[p[1]].at, n[Reach(parts, p)].at>>
        BY <3>1, <3>3, <3>4 DEF Seeking
      <4>2. PICK len2 : Apart(hay, parts, p, len2)
        BY <4>1, PlacingIs DEF StandsFrom
      <4>3. p[1] \in Nat
        <5>1. 1 \in 1..Len(parts)
          BY PartIs
        <5> QED
          BY <4>2, <5>1 DEF Apart
      <4>4. from <= p[1]
        BY <1>6, <2>1, <4>1, <4>3 DEF StandsFrom
      <4>5. StandsFrom(n, hay, parts, from, p)
        BY <4>1, <4>4 DEF StandsFrom
      <4> QED
        BY <3>1, <3>4, <4>1, <4>5 DEF Seeking
    <3>5. CASE s[from] = <<>>
      <4>1. ASSUME NEW p, StandsFrom(n, hay, parts, from, p) PROVE FALSE
        <5>1. p \in Placings(hay, parts) /\ from <= p[1] /\ Close(n, parts, p)
          BY <4>1 DEF StandsFrom
        <5>2. first \in from..(p[1]) /\ p[1] \in 1..l
          BY <1>7, <5>1
        <5>3. CASE first = p[1]
          <6>1. last \in 1..Reach(parts, p)
            BY <1>4, <5>1, <5>3, GreedyLeast
          <6>2. PICK len2 : Apart(hay, parts, p, len2)
            BY <5>1, PlacingIs
          <6>3. PICK r \in 1..l : r = Reach(parts, p)
            BY <1>1, <6>2, PlacingIn
          <6>4. last <= r /\ last \in 1..Len(n) /\ r \in 1..Len(n)
            BY <1>1, <2>5, <6>1, <6>3
          <6>5. n[last].at <= n[r].at
            BY <6>4 DEF Maps
          <6>6. PICK a \in Nat, b \in Nat, c \in Nat :
                    a = n[first].at /\ b = n[last].at /\ c = n[r].at
            <7>1. n[first] \in Puts /\ n[last] \in Puts /\ n[r] \in Puts
              BY <1>1, <2>1, <6>4
            <7> QED
              BY <7>1 DEF Puts
          <6>7. Len(parts) /= 1 /\ ~(b - a < MaxElided)
            BY <2>7, <6>6
          <6>8. c - a < MaxElided
            BY <5>1, <5>3, <6>3, <6>6, <6>7 DEF Close
          <6>9. b <= c /\ MaxElided \in Nat
            BY <6>5, <6>6, CitingAssumption
          <6> QED
            BY <6>7, <6>8, <6>9
        <5>4. CASE first < p[1]
          <6>1. first + 1 <= p[1]
            BY <2>1, <5>2, <5>4
          <6>2. StandsFrom(n, hay, parts, first + 1, p)
            BY <5>1, <6>1 DEF StandsFrom
          <6> QED
            BY <3>1, <3>3, <3>5, <6>2 DEF Seeking
        <5> QED
          BY <2>1, <5>2, <5>3, <5>4
      <4> QED
        BY <3>5, <4>1 DEF Seeking
    <3> QED
      BY <3>4, <3>5
  <2> QED
    BY <2>6, <2>7
<1> QED
  BY <1>9, <1>10, <1>11

\* A search finds the parts exactly when they can be placed.
LEMMA SearchExact ==
    ASSUME NEW text, NEW n, Maps(text, n, 1),
           NEW hay \in Seq(Chars), hay = CharsOf(n), Len(hay) = Len(n),
           NEW parts, parts \in Seq(Seq(Chars) \ {<<>>}), parts /= <<>>,
           NEW s, Seeks(n, hay, parts, s)
    PROVE  Seeking(n, hay, parts, s, 1)
<1>1. PICK k \in Nat : k = Len(hay) + 1 /\ 1 \in 1..k
  OBVIOUS
<1> DEFINE P == {from \in 1..k : Seeking(n, hay, parts, s, from)}
<1>2. ASSUME NEW from \in 1..k, \A j \in (from + 1)..k : j \in P PROVE from \in P
  <2>1. \A j \in (from + 1)..(Len(hay) + 1) : Seeking(n, hay, parts, s, j)
    BY <1>1, <1>2
  <2>2. from \in 1..(Len(hay) + 1)
    BY <1>1
  <2>3. Seeking(n, hay, parts, s, from)
    BY <2>1, <2>2, SearchStep
  <2> QED
    BY <2>3
<1>3. \A from \in 1..k : from \in P
  <2> HIDE DEF P
  <2> QED
    BY <1>2, DownInduction
<1> QED
  BY <1>1, <1>3

-----------------------------------------------------------------------------
(* What is put out, place by place.                                        *)

\* s goes on as r after h.
GoesOn(s, h, r, m) == \A k \in 1..m : s[h + k] = r[k]

\* At i out is put out, and what is put out at <<j, l>> follows.
Reads(text, norm, i, last, out, j, l) ==
    LET s == norm[<<i, last>>]
        rest == norm[<<j, l>>] IN
    /\ out = Taken(text, i, last).out /\ <<j, l>> = Taken(text, i, last).next
    /\ Len(s) = Len(out) + Len(rest)
    /\ \A k \in 1..Len(out) : s[k] = [char |-> out[k], at |-> i]
    /\ GoesOn(s, Len(out), rest, Len(rest))

\* From every place on, the text maps to what is put out.
LEMMA PlaceMaps ==
    ASSUME NEW text \in Seq(Chars), NEW n \in Nat, n = Len(text), NEW norm,
           PutsOut(text, norm), NEW i \in 1..(n + 1), NEW last \in Lasts
    PROVE  Maps(text, norm[<<i, last>>], i)
<1>1. PICK w \in (1..(Len(text) + 1)) \X Lasts : w = <<i, last>>
  OBVIOUS
<1>2. Maps(text, norm[w], w[1])
  BY PlacesMap
<1> QED
  BY <1>1, <1>2

\* After the text nothing is put out.
LEMMA PlaceEnds ==
    ASSUME NEW text \in Seq(Chars), NEW n \in Nat, n = Len(text), NEW norm,
           PutsOut(text, norm), NEW last \in Lasts
    PROVE  norm[<<n + 1, last>>] = <<>>
<1>1. PICK w \in (1..(Len(text) + 1)) \X Lasts : w = <<n + 1, last>>
  <2>1. PICK i \in 1..(Len(text) + 1) : i = n + 1
    OBVIOUS
  <2>2. <<i, last>> \in (1..(Len(text) + 1)) \X Lasts
    OBVIOUS
  <2> QED
    BY <2>1, <2>2
<1>2. w[1] > Len(text)
  <2>1. w[1] = n + 1
    BY <1>1
  <2> QED
    BY <2>1
<1>3. norm[w] = <<>>
  BY <1>2 DEF PutsOut
<1> QED
  BY <1>1, <1>3

\* Within it, a character is read, and the rest after it.
LEMMA PlaceReads ==
    ASSUME NEW text \in Seq(Chars), NEW n \in Nat, n = Len(text), NEW norm,
           PutsOut(text, norm), NEW i \in 1..n, NEW last \in Lasts
    PROVE  \E out \in Seq(Chars), j \in (i + 1)..(n + 1), l \in Lasts :
              Reads(text, norm, i, last, out, j, l)
<1>1. PICK t : t = Taken(text, i, last)
  OBVIOUS
<1>2. t.out \in Seq(Chars) /\ t.next \in ((i + 1)..(n + 1)) \X Lasts
  BY <1>1, TakenIs
<1>3. PICK out \in Seq(Chars) : out = t.out
  BY <1>2
<1>4. PICK j \in (i + 1)..(n + 1), l \in Lasts : t.next = <<j, l>>
  BY <1>2
<1>5. PICK h \in Nat : h = Len(out) /\ \A k \in 1..h : out[k] \in Chars
  OBVIOUS
<1>6. PICK b : b = [k \in 1..h |-> [char |-> out[k], at |-> i]]
  OBVIOUS
<1>7. b \in [1..h -> Puts]
  BY <1>5, <1>6 DEF Puts
<1>8. b \in Seq(Puts) /\ Len(b) = h
  BY <1>7, FunctionIsSeq
<1>9. PICK r, s : r = norm[<<j, l>>] /\ s = norm[<<i, last>>]
  OBVIOUS
<1>10. j \in 1..(n + 1)
  OBVIOUS
<1>11. r \in Seq(Puts)
  <2>1. Maps(text, r, j)
    BY <1>9, <1>10, PlaceMaps
  <2> QED
    BY <2>1 DEF Maps
<1>12. s = b \o r
  <2>1. PICK w \in (1..(Len(text) + 1)) \X Lasts : w = <<i, last>>
    <3>1. i \in 1..(Len(text) + 1)
      OBVIOUS
    <3>2. <<i, last>> \in (1..(Len(text) + 1)) \X Lasts
      BY <3>1
    <3> QED
      BY <3>2
  <2>2. ~(w[1] > Len(text)) /\ w[1] = i /\ w[2] = last
    BY <2>1
  <2>3. norm[w] = [k \in 1..Len(t.out) |-> [char |-> t.out[k], at |-> i]] \o
                      norm[t.next]
    BY <1>1, <2>2 DEF PutsOut
  <2> QED
    BY <1>3, <1>4, <1>5, <1>6, <1>9, <2>1, <2>3
<1>13. /\ Len(b \o r) = Len(b) + Len(r)
       /\ \A k \in 1..Len(b) : (b \o r)[k] = b[k]
       /\ \A k \in 1..Len(r) : (b \o r)[Len(b) + k] = r[k]
  <2>1. PICK E : E = Puts
    OBVIOUS
  <2>2. b \in Seq(E) /\ r \in Seq(E)
    BY <1>8, <1>11, <2>1
  <2> QED
    BY <2>2, ConcatIs
<1>14. /\ Len(s) = h + Len(r)
       /\ \A k \in 1..h : s[k] = b[k]
       /\ \A k \in 1..Len(r) : s[h + k] = r[k]
  BY <1>8, <1>12, <1>13
<1>15. \A k \in 1..h : s[k] = [char |-> out[k], at |-> i]
  BY <1>6, <1>14
<1>16. Reads(text, norm, i, last, out, j, l)
  BY <1>1, <1>3, <1>4, <1>5, <1>9, <1>14, <1>15 DEF Reads, GoesOn
<1> QED
  BY <1>16

\* Sequences of one and of two.
LEMMA FewAre ==
    ASSUME NEW a, NEW b
    PROVE  /\ Len(<<a>>) \in 1..2 /\ \A k \in 1..Len(<<a>>) : <<a>>[k] = a
           /\ Len(<<a, b>>) \in 1..2
           /\ \A k \in 1..Len(<<a, b>>) : <<a, b>>[k] \in {a, b}
OBVIOUS

\* What is no space becomes one or two characters that are none.
LEMMA MapCharInk ==
    ASSUME NEW c \in Chars, ~IsSpace(c)
    PROVE  /\ Len(MapChar(c)) \in 1..2
           /\ \A k \in 1..Len(MapChar(c)) : MapChar(c)[k] /= " "
<1>1. c /= " "
  BY DEF IsSpace
<1>2. CASE c = "fi"
  <2>1. PICK a, b : a = "f" /\ b = "i"
    OBVIOUS
  <2>2. MapChar(c) = <<a, b>> /\ a /= " " /\ b /= " "
    BY <1>2, <2>1 DEF MapChar
  <2>3. /\ Len(<<a, b>>) \in 1..2
        /\ \A k \in 1..Len(<<a, b>>) : <<a, b>>[k] \in {a, b}
    BY FewAre
  <2> QED
    BY <2>2, <2>3
<1>3. CASE c = "A"
  <2>1. PICK a : a = "a"
    OBVIOUS
  <2>2. MapChar(c) = <<a>> /\ a /= " "
    BY <1>3, <2>1 DEF MapChar
  <2> QED
    BY <2>2, FewAre, ZenonT(40)
<1>4. CASE c /= "fi" /\ c /= "A"
  <2>1. MapChar(c) = <<c>>
    BY <1>4 DEF MapChar
  <2> QED
    BY <1>1, <2>1, FewAre, ZenonT(40)
<1> QED
  BY <1>2, <1>3, <1>4

\* Nothing is put out, or a space after what is none, or what the character
\* becomes, whatever came before it.
Takes(text, i, last, t) ==
    \/ t.out = <<>> /\ t.next[2] = last
    \/ /\ t.out = <<" ">> /\ t.next = <<i + 1, "space">>
       /\ IsSpace(text[i]) /\ last \notin {"none", "space"}
    \/ /\ t.out = MapChar(text[i]) /\ t.next[1] = i + 1
       /\ ~IsSpace(text[i])
       /\ t = Taken(text, i, "none")

\* These are the cases there are.
LEMMA TakenCases ==
    ASSUME NEW text \in Seq(Chars), NEW n \in Nat, n = Len(text), NEW i \in 1..n,
           NEW last \in Lasts, NEW t, t = Taken(text, i, last)
    PROVE  Takes(text, i, last, t)
<1> USE DEF Takes
<1>1. PICK c \in Chars : c = text[i]
  OBVIOUS
<1>2. CASE c = "shy"
  <2>1. t = [out |-> <<>>, next |-> <<i + 1, last>>]
    BY <1>1, <1>2 DEF Taken, IsSpace
  <2> QED
    BY <2>1
<1>3. CASE c = "-" /\ last = "letter" /\ Continues(text, i) /= 0
  <2>1. t = [out |-> <<>>, next |-> <<Continues(text, i), last>>]
    BY <1>1, <1>3 DEF Taken, IsSpace
  <2> QED
    BY <2>1
<1>4. CASE IsSpace(c) /\ last \in {"none", "space"}
  <2>1. t = [out |-> <<>>, next |-> <<i + 1, last>>]
    BY <1>1, <1>4 DEF Taken, IsSpace
  <2> QED
    BY <2>1
<1>5. CASE IsSpace(c) /\ last \notin {"none", "space"}
  <2>1. PICK blank, next : blank = <<" ">> /\ next = <<i + 1, "space">>
    OBVIOUS
  <2>2. t = [out |-> blank, next |-> next]
    BY <1>1, <1>5, <2>1 DEF Taken, IsSpace
  <2>3. t.out = blank /\ t.next = next
    BY <2>2
  <2> QED
    BY <1>1, <1>5, <2>1, <2>3
<1>6. CASE /\ c /= "shy" /\ ~IsSpace(c)
           /\ ~(c = "-" /\ last = "letter" /\ Continues(text, i) /= 0)
  <2>1. PICK next : next = <<i + 1, IF IsAlpha(Last(MapChar(c))) THEN "letter"
                                    ELSE "other">>
    OBVIOUS
  <2>2. PICK m : m = MapChar(c)
    OBVIOUS
  <2>3. t = [out |-> m, next |-> next]
    BY <1>1, <1>6, <2>1, <2>2 DEF Taken
  <2>4. Taken(text, i, "none") = [out |-> m, next |-> next]
    BY <1>1, <1>6, <2>1, <2>2 DEF Taken
  <2>5. next[1] = i + 1
    BY <2>1
  <2>6. t.out = m /\ t.next[1] = i + 1
    BY <2>3, <2>5
  <2>7. t = Taken(text, i, "none")
    BY <2>3, <2>4
  <2> QED
    BY <1>1, <1>6, <2>2, <2>6, <2>7
<1> QED
  BY <1>2, <1>3, <1>4, <1>5, <1>6

\* No two b in a row of the n characters of s.
Spaced(s, n, b) == \A k \in 1..(n - 1) : s[k].char = b => s[k + 1].char /= b

\* They do not start with b.
Starts(s, n, b) == n > 0 => s[1].char /= b

\* No two spaces in a row of the n characters of s, and none at the start.
Tidy(s, n, last) ==
    /\ last \in {"none", "space"} => Starts(s, n, " ")
    /\ Spaced(s, n, " ")

\* What is put together of tidy sequences is tidy if it is where they meet.
LEMMA TidyMeets ==
    ASSUME NEW h \in Nat, NEW m \in Nat, NEW s, NEW r, NEW b,
           GoesOn(s, h, r, m),
           \A k \in 1..(m - 1) : r[k].char = b => r[k + 1].char /= b,
           \A k \in 1..(h - 1) : s[k].char = b => s[k + 1].char /= b,
           h > 0 /\ m > 0 /\ s[h].char = b => r[1].char /= b
    PROVE  \A k \in 1..(h + m - 1) : s[k].char = b => s[k + 1].char /= b
<1> SUFFICES ASSUME NEW k \in 1..(h + m - 1), s[k].char = b
             PROVE  s[k + 1].char /= b
  OBVIOUS
<1>1. CASE k < h
  BY <1>1
<1>2. CASE k = h
  <2>1. m > 0 /\ 1 \in 1..m
    BY <1>2
  <2>2. s[h + 1] = r[1]
    BY <2>1 DEF GoesOn
  <2> QED
    BY <1>2, <2>1, <2>2
<1>3. CASE k > h
  <2>1. PICK d \in 1..(m - 1) : d = k - h /\ k = h + d /\ k + 1 = h + (d + 1)
    <3>1. k - h \in 1..(m - 1) /\ k = h + (k - h) /\ k + 1 = h + ((k - h) + 1)
      BY <1>3
    <3> QED
      BY <3>1
  <2>2. d \in 1..m /\ d + 1 \in 1..m
    OBVIOUS
  <2>3. s[k] = r[d] /\ s[k + 1] = r[d + 1]
    BY <2>1, <2>2 DEF GoesOn
  <2> QED
    BY <2>3
<1> QED
  BY <1>1, <1>2, <1>3

\* ... where nothing was put out,
LEMMA TidySkip ==
    ASSUME NEW s, NEW r, NEW m \in Nat, NEW b, GoesOn(s, 0, r, m)
    PROVE  /\ Spaced(r, m, b) => Spaced(s, m, b)
           /\ Starts(r, m, b) => Starts(s, m, b)
<1>1. \A k \in 1..m : s[k] = r[k]
  <2>1. ASSUME NEW k \in 1..m PROVE s[k] = r[k]
    <3>1. s[0 + k] = r[k] /\ 0 + k = k
      BY DEF GoesOn
    <3> QED
      BY <3>1
  <2> QED
    BY <2>1
<1>2. ASSUME Spaced(r, m, b), NEW k \in 1..(m - 1), s[k].char = b
      PROVE  s[k + 1].char /= b
  <2>1. k \in 1..m /\ k + 1 \in 1..m
    OBVIOUS
  <2> QED
    BY <1>1, <1>2, <2>1 DEF Spaced
<1>3. ASSUME Starts(r, m, b), m > 0 PROVE s[1].char /= b
  <2>1. 1 \in 1..m
    BY <1>3
  <2> QED
    BY <1>1, <1>3, <2>1 DEF Starts
<1> QED
  BY <1>2, <1>3 DEF Spaced, Starts

\* ... where a b was,
LEMMA TidySpace ==
    ASSUME NEW s, NEW r, NEW m \in Nat, NEW b, GoesOn(s, 1, r, m),
           Spaced(r, m, b), Starts(r, m, b)
    PROVE  Spaced(s, 1 + m, b)
<1>1. \A k \in 1..(m - 1) : r[k].char = b => r[k + 1].char /= b
  BY DEF Spaced
<1>2. \A k \in 1..(1 - 1) : s[k].char = b => s[k + 1].char /= b
  OBVIOUS
<1>3. 1 > 0 /\ m > 0 /\ s[1].char = b => r[1].char /= b
  BY DEF Starts
<1>4. \A k \in 1..(1 + m - 1) : s[k].char = b => s[k + 1].char /= b
  BY <1>1, <1>2, <1>3, TidyMeets
<1> QED
  BY <1>4 DEF Spaced

\* ... and where one or two others were.
LEMMA TidyInk ==
    ASSUME NEW s, NEW r, NEW h \in 1..2, NEW m \in Nat, NEW b,
           GoesOn(s, h, r, m), Spaced(r, m, b),
           \A k \in 1..h : s[k].char /= b
    PROVE  Starts(s, h + m, b) /\ Spaced(s, h + m, b)
<1>1. \A k \in 1..(m - 1) : r[k].char = b => r[k + 1].char /= b
  BY DEF Spaced
<1>2. 1 \in 1..h /\ h \in 1..h /\ h \in Nat
  OBVIOUS
<1>3. \A k \in 1..(h - 1) : s[k].char = b => s[k + 1].char /= b
  <2>1. \A k \in 1..(h - 1) : k \in 1..h
    OBVIOUS
  <2> QED
    BY <2>1
<1>4. h > 0 /\ m > 0 /\ s[h].char = b => r[1].char /= b
  BY <1>2
<1>5. \A k \in 1..(h + m - 1) : s[k].char = b => s[k + 1].char /= b
  BY <1>1, <1>2, <1>3, <1>4, TidyMeets
<1>6. s[1].char /= b
  BY <1>2
<1>7. Starts(s, h + m, b)
  BY <1>6 DEF Starts
<1> QED
  BY <1>5, <1>7 DEF Spaced

\* What is put out from a place on is tidy.
TidyAt(norm, i, last) == Tidy(norm[<<i, last>>], Len(norm[<<i, last>>]), last)

\* So it is everywhere.
LEMMA PlaceTidy ==
    ASSUME NEW text \in Seq(Chars), NEW n \in Nat, n = Len(text), NEW norm,
           PutsOut(text, norm)
    PROVE  \A i \in 1..(n + 1) : \A last \in Lasts : TidyAt(norm, i, last)
<1> DEFINE P == {i \in 1..(n + 1) : \A last \in Lasts : TidyAt(norm, i, last)}
<1>1. ASSUME NEW last \in Lasts PROVE TidyAt(norm, n + 1, last)
  <2>1. PICK none : none = <<>> /\ Len(none) = 0
    OBVIOUS
  <2>2. norm[<<n + 1, last>>] = none
    BY <2>1, PlaceEnds
  <2> QED
    BY <2>1, <2>2 DEF Tidy, TidyAt, Starts, Spaced
<1>2. ASSUME NEW i \in 1..n, \A j \in (i + 1)..(n + 1) : j \in P, NEW last \in Lasts
      PROVE  TidyAt(norm, i, last)
  <2>1. PICK out \in Seq(Chars), j \in (i + 1)..(n + 1), l \in Lasts :
            Reads(text, norm, i, last, out, j, l)
    BY PlaceReads
  <2>2. PICK s, r, t : /\ s = norm[<<i, last>>] /\ r = norm[<<j, l>>]
                       /\ t = Taken(text, i, last)
    OBVIOUS
  <2>3. Tidy(r, Len(r), l)
    BY <1>2, <2>2 DEF TidyAt
  <2>4. PICK h \in Nat, m \in Nat : h = Len(out) /\ m = Len(r)
    <3>1. j \in 1..(n + 1)
      OBVIOUS
    <3>2. Maps(text, r, j)
      BY <2>2, <3>1, PlaceMaps
    <3>3. r \in Seq(Puts)
      BY <3>2 DEF Maps
    <3> QED
      BY <3>3
  <2>5. /\ Len(s) = h + m
        /\ \A k \in 1..h : s[k] = [char |-> out[k], at |-> i]
        /\ GoesOn(s, h, r, m)
    BY <2>1, <2>2, <2>4 DEF Reads
  <2> HIDE DEF P
  <2>6. t.out = out /\ t.next = <<j, l>>
    <3>1. Taken(text, i, last).out = out /\ Taken(text, i, last).next = <<j, l>>
      BY <2>1, Zenon DEF Reads
    <3> QED
      BY <2>2, <3>1
  <2>7. \A k \in 1..h : s[k].char = out[k]
    <3>1. ASSUME NEW k \in 1..h PROVE s[k].char = out[k]
      <4>1. s[k] = [char |-> out[k], at |-> i]
        BY <2>5
      <4> QED
        BY <4>1
    <3> QED
      BY <3>1
  <2>8. t.next[2] = l
    BY <2>6
  <2>9. PICK c \in Chars : c = text[i]
    OBVIOUS
  <2>10. CASE out = <<>> /\ l = last
    <3>1. h = 0 /\ h + m = m
      BY <2>4, <2>10
    <3>2. Spaced(s, m, " ") /\ (Starts(r, m, " ") => Starts(s, m, " "))
      <4>1. GoesOn(s, 0, r, m)
        BY <2>5, <3>1
      <4>2. Spaced(r, m, " ")
        BY <2>3, <2>4 DEF Tidy
      <4> QED
        BY <4>1, <4>2, TidySkip
    <3> QED
      BY <2>2, <2>3, <2>4, <2>5, <2>10, <3>1, <3>2 DEF Tidy, TidyAt
  <2>11. CASE out = <<" ">> /\ l = "space" /\ last \notin {"none", "space"}
    <3>1. h = 1
      <4>1. PICK b : b = " " /\ out = <<b>>
        BY <2>11
      <4> QED
        BY <2>4, <4>1
    <3>2. Spaced(s, 1 + m, " ")
      <4>1. GoesOn(s, 1, r, m)
        BY <2>5, <3>1
      <4>2. Spaced(r, m, " ") /\ Starts(r, m, " ")
        BY <2>3, <2>4, <2>11 DEF Tidy
      <4> QED
        BY <4>1, <4>2, TidySpace
    <3> QED
      BY <2>2, <2>5, <2>11, <3>1, <3>2 DEF Tidy, TidyAt
  <2>12. CASE out = MapChar(c) /\ ~IsSpace(c)
    <3>1. /\ Len(MapChar(c)) \in 1..2
          /\ \A k \in 1..Len(MapChar(c)) : MapChar(c)[k] /= " "
      BY <2>12, MapCharInk
    <3>2. h \in 1..2 /\ \A k \in 1..h : s[k].char /= " "
      BY <2>4, <2>7, <2>12, <3>1
    <3>3. Starts(s, h + m, " ") /\ Spaced(s, h + m, " ")
      <4>1. Spaced(r, m, " ")
        BY <2>3, <2>4 DEF Tidy
      <4> QED
        BY <2>5, <3>2, <4>1, TidyInk
    <3> QED
      BY <2>2, <2>5, <3>3 DEF Tidy, TidyAt
  <2>13. \/ out = <<>> /\ l = last
         \/ out = <<" ">> /\ l = "space" /\ last \notin {"none", "space"}
         \/ out = MapChar(c) /\ ~IsSpace(c)
    <3>1. \/ t.out = <<>> /\ t.next[2] = last
          \/ /\ t.out = <<" ">> /\ t.next = <<i + 1, "space">>
             /\ IsSpace(text[i]) /\ last \notin {"none", "space"}
          \/ /\ t.out = MapChar(text[i]) /\ t.next[1] = i + 1
             /\ ~IsSpace(text[i])
             /\ t = Taken(text, i, "none")
      <4>1. Takes(text, i, last, t)
        BY <2>2, TakenCases
      <4> QED
        BY <4>1 DEF Takes
    <3>2. t.next = <<i + 1, "space">> => l = "space"
      <4>1. PICK w : w = t.next
        OBVIOUS
      <4>2. w = <<j, l>>
        BY <2>6, <4>1
      <4>3. w = <<i + 1, "space">> => w[2] = "space"
        OBVIOUS
      <4>4. w[2] = l
        BY <4>2
      <4> QED
        BY <4>1, <4>3, <4>4
    <3> QED
      BY <2>6, <2>8, <2>9, <3>1, <3>2, Zenon
  <2> QED
    BY <2>10, <2>11, <2>12, <2>13
<1>3. ASSUME NEW i \in 1..(n + 1), \A j \in (i + 1)..(n + 1) : j \in P PROVE i \in P
  <2>1. CASE i = n + 1
    BY <1>1, <2>1
  <2>2. CASE i \in 1..n
    BY <1>2, <1>3, <2>2
  <2> QED
    BY <2>1, <2>2
<1>4. \A i \in 1..(n + 1) : i \in P
  <2> HIDE DEF P
  <2>1. n + 1 \in Nat
    OBVIOUS
  <2> QED
    BY <1>3, <2>1, DownInduction
<1> QED
  BY <1>4

-----------------------------------------------------------------------------
(* A slice of a text is normalized as the text is.                         *)

\* slice stands in text after d.
Within(slice, text, d) ==
    /\ slice \in Seq(Chars) /\ d \in Nat /\ d + Len(slice) <= Len(text)
    /\ \A k \in 1..Len(slice) : slice[k] = text[d + k]

\* A word goes on in the slice where it goes on in the text.
LEMMA ContinuesSlice ==
    ASSUME NEW text \in Seq(Chars), NEW n \in Nat, n = Len(text),
           NEW slice, NEW d, Within(slice, text, d), NEW k \in 1..Len(slice),
           NEW j \in Nat, j = Continues(text, d + k), j <= d + Len(slice)
    PROVE  Continues(slice, k) = IF j = 0 THEN 0 ELSE j - d
<1>1. PICK c \in Nat : c = Len(slice) /\ d \in Nat /\ d + c <= n
  BY DEF Within
<1>2. \A i \in 1..c : slice[i] = text[d + i]
  BY <1>1 DEF Within
<1>3. PICK rest, there : /\ rest = {i \in (d + k + 1)..n : ~IsSpace(text[i])}
                         /\ there = {i \in (k + 1)..c : ~IsSpace(slice[i])}
  OBVIOUS
<1>4. k \in 1..c
  BY <1>1
<1>5. \A i \in there : d + i \in rest
  BY <1>1, <1>2, <1>3, <1>4
<1>6. \A i \in rest : i <= d + c => i - d \in there
  <2> SUFFICES ASSUME NEW i \in rest, i <= d + c PROVE i - d \in there
    OBVIOUS
  <2>1. i \in (d + k + 1)..n /\ ~IsSpace(text[i])
    BY <1>3
  <2>2. PICK q \in (k + 1)..c : q = i - d /\ i = d + q
    BY <1>1, <1>4, <2>1
  <2>3. slice[q] = text[i]
    BY <1>2, <1>4, <2>2
  <2> QED
    BY <1>3, <2>1, <2>2, <2>3
<1>7. rest # {} => Min(rest) \in rest /\ \A i \in rest : Min(rest) <= i
  <2>1. rest \subseteq (d + k + 1)..n /\ d + k + 1 \in Nat
    BY <1>1, <1>3, <1>4
  <2> QED
    BY <2>1, Ends
<1>8. there # {} => Min(there) \in there /\ \A i \in there : Min(there) <= i
  <2>1. there \subseteq (k + 1)..c /\ k + 1 \in Nat
    BY <1>1, <1>3, <1>4
  <2> QED
    BY <2>1, Ends
<1>9. PICK u, v : /\ u = IF rest = {} THEN 0 ELSE Min(rest)
                  /\ v = IF there = {} THEN 0 ELSE Min(there)
  OBVIOUS
<1>10. j = IF /\ u /= 0 /\ \E i \in (d + k + 1)..(u - 1) : text[i] = "nl"
              /\ IsLower(text[u])
           THEN u ELSE 0
  BY <1>3, <1>9 DEF Continues
<1>11. Continues(slice, k) =
           IF /\ v /= 0 /\ \E i \in (k + 1)..(v - 1) : slice[i] = "nl"
              /\ IsLower(slice[v])
           THEN v ELSE 0
  BY <1>1, <1>3, <1>9 DEF Continues
<1>12. CASE there = {}
  <2>1. v = 0
    BY <1>9, <1>12
  <2>2. j = 0
    <3> SUFFICES ASSUME j /= 0 PROVE FALSE
      OBVIOUS
    <3>1. j = u /\ u /= 0
      BY <1>10
    <3>2. u \in rest
      BY <1>7, <1>9, <3>1
    <3>3. u <= d + c
      BY <1>1, <3>1
    <3> QED
      BY <1>6, <1>12, <3>2, <3>3
  <2> QED
    BY <1>11, <2>1, <2>2
<1>13. CASE there # {}
  <2>1. v \in there /\ v \in (k + 1)..c /\ \A i \in there : v <= i
    BY <1>3, <1>8, <1>9, <1>13
  <2>2. d + v \in rest
    BY <1>5, <2>1
  <2>3. u \in rest /\ u <= d + v
    BY <1>7, <1>9, <2>2
  <2>4. u \in (d + k + 1)..n
    BY <1>3, <2>3
  <2>5. u - d \in there
    BY <1>1, <1>6, <2>1, <2>3, <2>4
  <2>6. v <= u - d
    BY <2>1, <2>5
  <2>7. u = d + v /\ v = u - d
    BY <1>1, <2>1, <2>3, <2>4, <2>6
  <2>8. slice[v] = text[u]
    BY <1>2, <1>4, <2>1, <2>7
  <2>9. (\E i \in (k + 1)..(v - 1) : slice[i] = "nl") <=>
           (\E i \in (d + k + 1)..(u - 1) : text[i] = "nl")
    <3>1. ASSUME NEW i \in (k + 1)..(v - 1), slice[i] = "nl"
          PROVE  \E p \in (d + k + 1)..(u - 1) : text[p] = "nl"
      <4>1. i \in 1..c /\ d + i \in (d + k + 1)..(u - 1)
        BY <1>1, <1>4, <2>1, <2>7
      <4>2. text[d + i] = "nl"
        BY <1>2, <3>1, <4>1
      <4> QED
        BY <4>1, <4>2
    <3>2. ASSUME NEW i \in (d + k + 1)..(u - 1), text[i] = "nl"
          PROVE  \E p \in (k + 1)..(v - 1) : slice[p] = "nl"
      <4>1. PICK p \in (k + 1)..(v - 1) : i = d + p
        <5>1. i - d \in (k + 1)..(v - 1) /\ i = d + (i - d)
          BY <1>1, <1>4, <2>1, <2>7
        <5> QED
          BY <5>1
      <4>2. p \in 1..c
        BY <1>4, <2>1
      <4>3. slice[p] = "nl"
        BY <1>2, <3>2, <4>1, <4>2
      <4> QED
        BY <4>3
    <3> QED
      BY <3>1, <3>2
  <2>10. u /= 0 /\ v /= 0
    BY <1>1, <1>4, <2>1, <2>4
  <2> QED
    BY <1>10, <1>11, <2>7, <2>8, <2>9, <2>10
<1> QED
  BY <1>12, <1>13

\* What is put out at a place of the slice is what is put out in the text.
LEMMA TakenSlice ==
    ASSUME NEW text \in Seq(Chars), NEW n \in Nat, n = Len(text),
           NEW slice, NEW d, Within(slice, text, d), NEW k \in 1..Len(slice),
           NEW last \in Lasts, NEW out, NEW j \in Nat, NEW l,
           Taken(text, d + k, last).out = out,
           Taken(text, d + k, last).next = <<j, l>>,
           out /= <<>> \/ j <= d + Len(slice)
    PROVE  /\ Taken(slice, k, last).out = out
           /\ Taken(slice, k, last).next = <<j - d, l>>
<1>1. PICK c : c = text[d + k] /\ c = slice[k]
  BY DEF Within
<1>2. PICK i \in 1..n : i = d + k
  BY DEF Within
<1>3. PICK u, v : u = Continues(text, i) /\ v = Continues(slice, k)
  OBVIOUS
<1>4. d \in Nat /\ k \in Nat
  BY DEF Within
<1>5. PICK t, r : t = Taken(text, i, last) /\ r = Taken(slice, k, last)
  OBVIOUS
<1>6. t.out = out /\ t.next = <<j, l>>
  BY <1>2, <1>5
<1>7. CASE c = "shy"
  <2>1. t = [out |-> <<>>, next |-> <<i + 1, last>>]
    BY <1>1, <1>2, <1>5, <1>7 DEF Taken, IsSpace
  <2>2. r = [out |-> <<>>, next |-> <<k + 1, last>>]
    BY <1>1, <1>5, <1>7 DEF Taken, IsSpace
  <2>3. t.next = <<i + 1, last>> /\ t.out = <<>>
    BY <2>1
  <2>4. r.next = <<k + 1, last>> /\ r.out = <<>>
    BY <2>2
  <2>5. j = i + 1 /\ l = last
    BY <1>6, <2>3
  <2>6. j - d = k + 1
    BY <1>2, <1>4, <2>5
  <2>7. r.next = <<j - d, l>> /\ r.out = out
    BY <1>6, <2>3, <2>4, <2>5, <2>6
  <2> QED
    BY <1>5, <2>7
<1>8. CASE c = "-" /\ last = "letter" /\ u /= 0
  <2>1. t = [out |-> <<>>, next |-> <<u, last>>]
    BY <1>1, <1>2, <1>3, <1>5, <1>8 DEF Taken, IsSpace
  <2>2. t.next = <<u, last>> /\ t.out = <<>>
    BY <2>1
  <2>3. j = u /\ l = last
    BY <1>6, <2>2
  <2>4. out = <<>>
    BY <1>6, <2>2
  <2>5. j <= d + Len(slice)
    BY <2>4
  <2>6. v = j - d
    <3>1. j = Continues(text, d + k) /\ j /= 0
      BY <1>2, <1>3, <1>8, <2>3
    <3> QED
      BY <1>3, <2>5, <3>1, ContinuesSlice
  <2>7. v /= 0
    <3>1. u \in (i + 1)..n
      BY <1>2, <1>3, <1>8, ContinuesAfter
    <3> QED
      BY <1>2, <1>4, <2>3, <2>6, <3>1
  <2>8. r = [out |-> <<>>, next |-> <<v, last>>]
    BY <1>1, <1>3, <1>5, <1>8, <2>7 DEF Taken, IsSpace
  <2>9. r.next = <<v, last>> /\ r.out = <<>>
    BY <2>8
  <2> QED
    BY <1>5, <2>3, <2>4, <2>6, <2>9
<1>9. CASE c /= "shy" /\ ~(c = "-" /\ last = "letter" /\ u /= 0)
  <2>1. ~(c = "-" /\ last = "letter" /\ v /= 0)
    <3> SUFFICES ASSUME u = 0 PROVE v = 0
      BY <1>9
    <3>1. 0 = Continues(text, d + k) /\ 0 \in Nat /\ 0 <= d + Len(slice)
      BY <1>2, <1>3 DEF Within
    <3> QED
      BY <1>3, <3>1, ContinuesSlice
  <2>2. CASE IsSpace(c) /\ last \in {"none", "space"}
    <3>1. t = [out |-> <<>>, next |-> <<i + 1, last>>]
      BY <1>1, <1>2, <1>5, <2>2 DEF Taken, IsSpace
    <3>2. r = [out |-> <<>>, next |-> <<k + 1, last>>]
      BY <1>1, <1>5, <2>2 DEF Taken, IsSpace
    <3>3. t.next = <<i + 1, last>> /\ t.out = <<>>
      BY <3>1
    <3>4. r.next = <<k + 1, last>> /\ r.out = <<>>
      BY <3>2
    <3>5. j = i + 1 /\ l = last
      BY <1>6, <3>3
    <3>6. j - d = k + 1
      BY <1>2, <1>4, <3>5
    <3>7. r.next = <<j - d, l>> /\ r.out = out
      BY <1>6, <3>3, <3>4, <3>5, <3>6
    <3> QED
      BY <1>5, <3>7
  <2>3. CASE IsSpace(c) /\ last \notin {"none", "space"}
    <3>0. PICK blank, sp : blank = <<" ">> /\ sp = "space"
      OBVIOUS
    <3>1. t = [out |-> blank, next |-> <<i + 1, sp>>]
      BY <1>1, <1>2, <1>5, <2>3, <3>0 DEF Taken, IsSpace
    <3>2. r = [out |-> blank, next |-> <<k + 1, sp>>]
      BY <1>1, <1>5, <2>3, <3>0 DEF Taken, IsSpace
    <3>3. t.next = <<i + 1, sp>> /\ t.out = blank
      BY <3>1
    <3>4. r.next = <<k + 1, sp>> /\ r.out = blank
      BY <3>2
    <3>5. j = i + 1 /\ l = sp
      BY <1>6, <3>3
    <3>6. j - d = k + 1
      BY <1>2, <1>4, <3>5
    <3>7. r.next = <<j - d, l>> /\ r.out = out
      BY <1>6, <3>3, <3>4, <3>5, <3>6
    <3> QED
      BY <1>5, <3>7
  <2>4. CASE ~IsSpace(c)
    <3>0. PICK m, p : /\ m = MapChar(c)
                      /\ p = IF IsAlpha(Last(MapChar(c))) THEN "letter" ELSE "other"
      OBVIOUS
    <3>1. t = [out |-> m, next |-> <<i + 1, p>>]
      BY <1>1, <1>2, <1>3, <1>5, <1>9, <2>4, <3>0 DEF Taken
    <3>2. r = [out |-> m, next |-> <<k + 1, p>>]
      BY <1>1, <1>3, <1>5, <1>9, <2>1, <2>4, <3>0 DEF Taken
    <3>3. t.next = <<i + 1, p>> /\ t.out = m
      BY <3>1
    <3>4. r.next = <<k + 1, p>> /\ r.out = m
      BY <3>2
    <3>5. j = i + 1 /\ l = p
      BY <1>6, <3>3
    <3>6. j - d = k + 1
      BY <1>2, <1>4, <3>5
    <3>7. r.next = <<j - d, l>> /\ r.out = out
      BY <1>6, <3>3, <3>4, <3>5, <3>6
    <3> QED
      BY <1>5, <3>7
  <2> QED
    BY <2>2, <2>3, <2>4
<1> QED
  BY <1>7, <1>8, <1>9

\* What is put out from <<i, last>> on goes on after d as from <<s, l>>.
Stems(norm, i, last, d, s, l) ==
    /\ Len(norm[<<i, last>>]) = d + Len(norm[<<s, l>>])
    /\ GoesOn(norm[<<i, last>>], d, norm[<<s, l>>], Len(norm[<<s, l>>]))

\* The f-th character from <<i, last>> on is put out at some place.
Stemmed(text, norm, i, last, f) ==
    \E d \in Nat, s \in 1..Len(text), l \in Lasts :
        /\ Stems(norm, i, last, d, s, l)
        /\ f - d \in 1..Len(Taken(text, s, l).out)

StemmedAt(text, norm, i, last) ==
    \A f \in 1..Len(norm[<<i, last>>]) : Stemmed(text, norm, i, last, f)

\* What goes on after d goes on after h + d.
LEMMA GoesOnOn ==
    ASSUME NEW s, NEW r, NEW b, NEW h \in Nat, NEW d \in Nat, NEW m \in Nat,
           NEW q \in Nat, m = d + q, GoesOn(s, h, r, m), GoesOn(r, d, b, q)
    PROVE  GoesOn(s, h + d, b, q)
<1> SUFFICES ASSUME NEW k \in 1..q PROVE s[(h + d) + k] = b[k]
  BY DEF GoesOn
<1>1. PICK e \in 1..m : e = d + k
  OBVIOUS
<1>2. s[h + e] = r[e]
  BY DEF GoesOn
<1>3. r[d + k] = b[k]
  BY DEF GoesOn
<1>4. h + e = (h + d) + k
  BY <1>1
<1> QED
  BY <1>1, <1>2, <1>3, <1>4

\* What is put out from a place on is a sequence.
LEMMA PlaceLen ==
    ASSUME NEW text \in Seq(Chars), NEW n \in Nat, n = Len(text), NEW norm,
           PutsOut(text, norm), NEW i \in 1..(n + 1), NEW last \in Lasts
    PROVE  norm[<<i, last>>] \in Seq(Puts) /\ Len(norm[<<i, last>>]) \in Nat
<1>1. PICK s : s = norm[<<i, last>>]
  OBVIOUS
<1>2. s \in Seq(Puts)
  BY <1>1, PlaceMaps DEF Maps
<1>3. Len(s) \in Nat
  BY <1>2
<1> QED
  BY <1>1, <1>2, <1>3

\* Every character that is put out is put out at some place.
LEMMA PlaceOf ==
    ASSUME NEW text \in Seq(Chars), NEW n \in Nat, n = Len(text), NEW norm,
           PutsOut(text, norm)
    PROVE  \A i \in 1..(n + 1) : \A last \in Lasts : StemmedAt(text, norm, i, last)
<1> DEFINE P == {i \in 1..(n + 1) : \A last \in Lasts : StemmedAt(text, norm, i, last)}
<1>1. ASSUME NEW last \in Lasts PROVE StemmedAt(text, norm, n + 1, last)
  <2>1. PICK none : none = <<>> /\ Len(none) = 0
    OBVIOUS
  <2>2. norm[<<n + 1, last>>] = none
    BY <2>1, PlaceEnds
  <2>3. 1..Len(norm[<<n + 1, last>>]) = {}
    BY <2>1, <2>2
  <2> QED
    BY <2>3 DEF StemmedAt
<1>2. ASSUME NEW i \in 1..n, \A j \in (i + 1)..(n + 1) : j \in P, NEW last \in Lasts
      PROVE  StemmedAt(text, norm, i, last)
  <2>1. PICK out \in Seq(Chars), j \in (i + 1)..(n + 1), l \in Lasts :
            Reads(text, norm, i, last, out, j, l)
    BY PlaceReads
  <2>2. PICK a, r : a = norm[<<i, last>>] /\ r = norm[<<j, l>>]
    OBVIOUS
  <2>3. StemmedAt(text, norm, j, l)
    BY <1>2
  <2> HIDE DEF P
  <2>4. PICK h \in Nat, m \in Nat : h = Len(out) /\ m = Len(r)
    <3>1. j \in 1..(n + 1)
      OBVIOUS
    <3>2. Len(r) \in Nat
      BY <2>2, <3>1, PlaceLen
    <3>3. Len(out) \in Nat
      OBVIOUS
    <3> QED
      BY <3>2, <3>3
  <2>5. Len(a) = h + m /\ GoesOn(a, h, r, m) /\ out = Taken(text, i, last).out
    BY <2>1, <2>2, <2>4 DEF Reads
  <2>6. ASSUME NEW f \in 1..(h + m) PROVE Stemmed(text, norm, i, last, f)
    <3>1. CASE f <= h
      <4>1. Stems(norm, i, last, 0, i, last)
        <5>1. Len(a) = 0 + Len(a)
          BY <2>5
        <5>2. GoesOn(a, 0, a, Len(a))
          <6>1. \A k \in 1..(h + m) : 0 + k = k
            OBVIOUS
          <6> QED
            BY <2>5, <6>1 DEF GoesOn
        <5> QED
          BY <2>2, <5>1, <5>2 DEF Stems
      <4>2. f - 0 \in 1..h
        BY <3>1
      <4>3. f - 0 \in 1..Len(Taken(text, i, last).out)
        BY <2>4, <2>5, <4>2
      <4> QED
        BY <4>1, <4>3 DEF Stemmed
    <3>2. CASE f > h
      <4>1. PICK g \in 1..m : g = f - h
        BY <3>2
      <4>2. Stemmed(text, norm, j, l, g)
        BY <2>2, <2>3, <2>4, <4>1 DEF StemmedAt
      <4>3. PICK d \in Nat, s \in 1..Len(text), q \in Lasts :
                /\ Stems(norm, j, l, d, s, q)
                /\ g - d \in 1..Len(Taken(text, s, q).out)
        BY <4>2 DEF Stemmed
      <4>0. PICK b : b = norm[<<s, q>>]
        OBVIOUS
      <4>4. PICK e \in Nat : b = norm[<<s, q>>] /\ e = Len(b)
        <5>1. s \in 1..(n + 1)
          OBVIOUS
        <5>2. Len(norm[<<s, q>>]) \in Nat
          BY <5>1, PlaceLen
        <5> QED
          BY <4>0, <5>2
      <4>5. m = d + e /\ GoesOn(r, d, b, e)
        BY <2>2, <2>4, <4>3, <4>4 DEF Stems
      <4>6. GoesOn(a, h + d, b, e)
        BY <2>5, <4>5, GoesOnOn
      <4>7. Stems(norm, i, last, h + d, s, q)
        <5>1. Len(a) = (h + d) + e
          BY <2>5, <4>5
        <5> QED
          BY <2>2, <4>4, <4>6, <5>1 DEF Stems
      <4>8. f - (h + d) = g - d /\ h + d \in Nat
        BY <4>1
      <4>9. f - (h + d) \in 1..Len(Taken(text, s, q).out)
        BY <4>3, <4>8
      <4> QED
        BY <4>7, <4>8, <4>9 DEF Stemmed
    <3> QED
      BY <3>1, <3>2
  <2> QED
    BY <2>2, <2>5, <2>6 DEF StemmedAt
<1>3. ASSUME NEW i \in 1..(n + 1), \A j \in (i + 1)..(n + 1) : j \in P PROVE i \in P
  <2>1. CASE i = n + 1
    BY <1>1, <2>1
  <2>2. CASE i \in 1..n
    BY <1>2, <1>3, <2>2
  <2> QED
    BY <2>1, <2>2
<1>4. \A i \in 1..(n + 1) : i \in P
  <2> HIDE DEF P
  <2>1. n + 1 \in Nat
    OBVIOUS
  <2> QED
    BY <1>3, <2>1, DownInduction
<1> QED
  BY <1>4

\* a is what is put out, and its f-th character is no space.
Shows(norm, a, f) == a = norm[<<1, "none">>] /\ f \in 1..Len(a) /\ a[f].char /= " "

\* The character is put out at s, as if the text began there, after d others.
RestartsAt(norm, a, f, d, s) ==
    /\ s = a[f].at /\ f - d \in 1..2 /\ Stems(norm, 1, "none", d, s, "none")

\* What is no space is put out as if the text began with its character.
LEMMA Restarts ==
    ASSUME NEW text \in Seq(Chars), NEW n \in Nat, n = Len(text), NEW norm,
           PutsOut(text, norm), NEW a, NEW f \in Nat, Shows(norm, a, f)
    PROVE  \E d \in Nat, s \in 1..n : RestartsAt(norm, a, f, d, s)
<1>1. 1 \in 1..(n + 1) /\ "none" \in Lasts
  BY DEF Lasts
<1>2. a = norm[<<1, "none">>] /\ f \in 1..Len(a) /\ a[f].char /= " "
  BY DEF Shows
<1>3. Stemmed(text, norm, 1, "none", f)
  <2>1. StemmedAt(text, norm, 1, "none")
    BY <1>1, PlaceOf
  <2> QED
    BY <1>2, <2>1 DEF StemmedAt
<1>4. PICK d \in Nat, s \in 1..Len(text), l \in Lasts :
          /\ Stems(norm, 1, "none", d, s, l)
          /\ f - d \in 1..Len(Taken(text, s, l).out)
  BY <1>3 DEF Stemmed
<1>5. PICK b : b = norm[<<s, l>>]
  OBVIOUS
<1>6. PICK out \in Seq(Chars), j \in (s + 1)..(n + 1), q \in Lasts :
          Reads(text, norm, s, l, out, j, q)
  <2>1. s \in 1..n
    OBVIOUS
  <2> QED
    BY <2>1, PlaceReads
<1>7. PICK r : r = norm[<<j, q>>]
  OBVIOUS
<1>8. PICK h \in Nat, m \in Nat : h = Len(out) /\ m = Len(r)
  <2>1. j \in 1..(n + 1)
    OBVIOUS
  <2>2. Len(r) \in Nat
    BY <1>7, <2>1, PlaceLen
  <2>3. Len(out) \in Nat
    OBVIOUS
  <2> QED
    BY <2>2, <2>3
<1>9. /\ Len(b) = h + m
      /\ \A k \in 1..h : b[k] = [char |-> out[k], at |-> s]
      /\ out = Taken(text, s, l).out
  BY <1>5, <1>6, <1>7, <1>8 DEF Reads
<1>10. PICK k \in 1..h : k = f - d
  BY <1>4, <1>8, <1>9
<1>11. a[f].char = out[k] /\ a[f].at = s
  <2>1. k \in 1..(h + m) /\ f = d + k
    <3>1. f \in Int
      OBVIOUS
    <3> QED
      BY <1>10, <3>1
  <2>2. a[d + k] = b[k]
    BY <1>2, <1>4, <1>5, <1>9, <2>1 DEF Stems, GoesOn
  <2>3. a[f] = b[k]
    BY <2>1, <2>2
  <2>4. b[k] = [char |-> out[k], at |-> s]
    BY <1>9
  <2>5. b[k].char = out[k] /\ b[k].at = s
    BY <2>4
  <2> QED
    BY <2>3, <2>5
<1>12. s = a[f].at /\ out[k] /= " "
  BY <1>2, <1>11
<1>0. PICK t : t = Taken(text, s, l)
  OBVIOUS
<1>13. PICK c \in Chars : t = Taken(text, s, l) /\ c = text[s]
  BY <1>0
<1>14. Takes(text, s, l, t)
  <2>1. s \in 1..n
    OBVIOUS
  <2> QED
    BY <1>13, <2>1, TakenCases
<1>15. /\ out = MapChar(c) /\ ~IsSpace(c) /\ t = Taken(text, s, "none")
  <2>0. h = 1 => k = 1
    BY <1>10
  <2>1. t.out = out
    BY <1>9, <1>13
  <2>2. out /= <<>>
    BY <1>8, <1>10
  <2>3. out /= <<" ">>
    <3> SUFFICES ASSUME out = <<" ">> PROVE FALSE
      OBVIOUS
    <3>1. PICK z : z = " " /\ out = <<z>>
      OBVIOUS
    <3>2. Len(<<z>>) = 1 /\ <<z>>[1] = z
      OBVIOUS
    <3>3. h = 1
      BY <1>8, <3>1, <3>2
    <3>4. k = 1
      BY <2>0, <3>3, Zenon
    <3> QED
      BY <1>12, <3>1, <3>2, <3>4
  <2> QED
    BY <1>13, <1>14, <2>1, <2>2, <2>3 DEF Takes
<1>16. h \in 1..2
  BY <1>8, <1>15, MapCharInk
<1>17. norm[<<s, l>>] = norm[<<s, "none">>]
  <2>1. PICK w \in (1..(Len(text) + 1)) \X Lasts : w = <<s, l>>
    <3>1. s \in 1..(Len(text) + 1)
      OBVIOUS
    <3> QED
      BY <3>1
  <2>2. PICK v \in (1..(Len(text) + 1)) \X Lasts : v = <<s, "none">>
    <3>1. s \in 1..(Len(text) + 1)
      OBVIOUS
    <3> QED
      BY <1>1, <3>1
  <2>3. ~(w[1] > Len(text)) /\ w[1] = s /\ w[2] = l
    BY <2>1
  <2>4. ~(v[1] > Len(text)) /\ v[1] = s /\ v[2] = "none"
    BY <2>2
  <2>5. norm[w] = [i \in 1..Len(t.out) |-> [char |-> t.out[i], at |-> s]] \o
                      norm[t.next]
    BY <1>13, <2>3 DEF PutsOut
  <2>6. norm[v] = [i \in 1..Len(t.out) |-> [char |-> t.out[i], at |-> s]] \o
                      norm[t.next]
    BY <1>15, <2>4 DEF PutsOut
  <2> QED
    BY <2>1, <2>2, <2>5, <2>6
<1>18. Stems(norm, 1, "none", d, s, "none")
  BY <1>4, <1>17 DEF Stems
<1>19. f - d \in 1..2
  BY <1>10, <1>16
<1>20. s \in 1..n
  OBVIOUS
<1> QED
  BY <1>12, <1>18, <1>19, <1>20 DEF RestartsAt

\* The same len characters.
Same(a, b, len) == \A k \in 1..len : a[k].char = b[k].char

\* The m-th of a and the next come of one character of the text.
Twins(a, m) == a[m + 1].at = a[m].at

\* b is how a begins, up to its m-th character, or one more of the same
\* character of the text.
Begins(b, a, m) ==
    \E len \in Nat : /\ len \in m..(m + 1) /\ len = Len(b) /\ len <= Len(a)
                     /\ Same(b, a, len) /\ (len > m => Twins(a, m))

\* Same beginnings of the rest, after the same characters.
LEMMA BeginsOn ==
    ASSUME NEW a, NEW r, NEW b, NEW c, NEW h \in Nat, NEW m \in Nat, NEW q \in Nat,
           NEW f \in Nat \ {0},
           Len(r) = m, Len(a) = h + m, GoesOn(a, h, r, m),
           Len(c) = q, Len(b) = h + q, GoesOn(b, h, c, q),
           Same(b, a, h), Begins(c, r, f)
    PROVE  Begins(b, a, h + f)
<1>1. q \in f..(f + 1) /\ q <= m /\ Same(c, r, q) /\ (q > f => Twins(r, f))
  <2>1. PICK len \in Nat : /\ len \in f..(f + 1) /\ len = Len(c) /\ len <= Len(r)
                           /\ Same(c, r, len) /\ (len > f => Twins(r, f))
    BY DEF Begins
  <2>2. len = q
    BY <2>1
  <2> QED
    BY <2>1, <2>2
<1>2. ASSUME NEW k \in 1..(h + q) PROVE b[k].char = a[k].char
  <2>1. CASE k <= h
    <3>1. k \in 1..h
      BY <2>1
    <3> QED
      BY <3>1 DEF Same
  <2>2. CASE k > h
    <3>1. PICK p \in 1..q : k = h + p
      <4>1. k - h \in 1..q /\ k = h + (k - h)
        BY <2>2
      <4> QED
        BY <4>1
    <3>2. p \in 1..m
      BY <1>1
    <3>3. b[h + p] = c[p] /\ a[h + p] = r[p]
      BY <3>2 DEF GoesOn
    <3>4. c[p].char = r[p].char
      BY <1>1 DEF Same
    <3> QED
      BY <3>1, <3>3, <3>4
  <2> QED
    BY <2>1, <2>2
<1>3. Same(b, a, h + q)
  BY <1>2 DEF Same
<1>4. h + q \in (h + f)..((h + f) + 1) /\ h + q <= h + m /\ h + q \in Nat
  BY <1>1
<1>5. ASSUME h + q > h + f PROVE Twins(a, h + f)
  <2>1. q > f /\ f \in 1..m /\ f + 1 \in 1..m /\ (h + f) + 1 = h + (f + 1)
    BY <1>1, <1>5
  <2>2. a[h + f] = r[f] /\ a[h + (f + 1)] = r[f + 1]
    BY <2>1 DEF GoesOn
  <2>3. r[f + 1].at = r[f].at
    BY <1>1, <2>1 DEF Twins
  <2> QED
    BY <2>1, <2>2, <2>3 DEF Twins
<1> QED
  BY <1>3, <1>4, <1>5 DEF Begins

\* What is put out is one or two characters, and the next is read.
LEMMA TakenOne ==
    ASSUME NEW text \in Seq(Chars), NEW n \in Nat, n = Len(text), NEW i \in 1..n,
           NEW last \in Lasts, NEW out \in Seq(Chars), out /= <<>>,
           out = Taken(text, i, last).out
    PROVE  Len(out) \in 1..2 /\ Taken(text, i, last).next[1] = i + 1
<1>1. PICK t : t = Taken(text, i, last)
  OBVIOUS
<1>2. PICK c \in Chars : c = text[i]
  OBVIOUS
<1>3. Takes(text, i, last, t)
  BY <1>1, TakenCases
<1>4. \/ out = <<" ">> /\ t.next = <<i + 1, "space">>
      \/ out = MapChar(c) /\ t.next[1] = i + 1 /\ ~IsSpace(c)
  BY <1>1, <1>2, <1>3 DEF Takes
<1>5. CASE out = <<" ">> /\ t.next = <<i + 1, "space">>
  <2>1. PICK a, b, w : a = " " /\ b = "space" /\ w = <<a>>
    OBVIOUS
  <2>2. Len(w) \in 1..2
    <3>1. Len(<<a>>) \in 1..2
      BY FewAre
    <3> QED
      BY <2>1, <3>1
  <2>3. PICK p : p = <<i + 1, b>>
    OBVIOUS
  <2>4. p[1] = i + 1
    BY <2>3
  <2>5. out = w /\ t.next = p
    BY <1>5, <2>1, <2>3
  <2> QED
    BY <1>1, <2>2, <2>4, <2>5, Zenon
<1>6. CASE out = MapChar(c) /\ t.next[1] = i + 1 /\ ~IsSpace(c)
  <2>1. Len(MapChar(c)) \in 1..2
    BY <1>6, MapCharInk
  <2> QED
    BY <1>1, <1>6, <2>1, Zenon
<1> QED
  BY <1>4, <1>5, <1>6

\* Two are put out of a ligature only.
LEMMA TakenTwo ==
    ASSUME NEW text \in Seq(Chars), NEW n \in Nat, n = Len(text), NEW i \in 1..n,
           NEW last \in Lasts, NEW out \in Seq(Chars), Len(out) > 1,
           out = Taken(text, i, last).out
    PROVE  text[i] = "fi"
<1>1. PICK t : t = Taken(text, i, last)
  OBVIOUS
<1>2. PICK c \in Chars : c = text[i]
  OBVIOUS
<1>3. Takes(text, i, last, t)
  BY <1>1, TakenCases
<1>4. out = <<>> \/ out = <<" ">> \/ out = MapChar(c)
  BY <1>1, <1>2, <1>3 DEF Takes
<1>5. out /= <<>>
  <2>1. PICK none : none = <<>> /\ Len(none) = 0
    OBVIOUS
  <2> QED
    BY <2>1
<1>6. out /= <<" ">>
  <2>1. PICK a, w : a = " " /\ w = <<a>>
    OBVIOUS
  <2>2. Len(w) = 1
    BY <2>1
  <2>3. ASSUME out = w PROVE FALSE
    <3>1. Len(out) = 1
      BY <2>2, <2>3, Zenon
    <3> QED
      BY <3>1
  <2> QED
    BY <2>1, <2>3, Zenon
<1>7. out = MapChar(c)
  BY <1>4, <1>5, <1>6, Zenon
<1>8. CASE c = "A"
  <2>1. PICK b, v : b = "a" /\ v = <<b>>
    OBVIOUS
  <2>2. MapChar(c) = v
    BY <1>8, <2>1 DEF MapChar
  <2>3. Len(v) = 1
    BY <2>1
  <2> QED
    BY <1>7, <2>2, <2>3
<1>9. CASE c /= "fi" /\ c /= "A"
  <2>1. PICK v : v = <<c>>
    OBVIOUS
  <2>2. MapChar(c) = v
    BY <1>9, <2>1 DEF MapChar
  <2>3. Len(v) = 1
    BY <2>1
  <2> QED
    BY <1>7, <2>2, <2>3
<1> QED
  BY <1>2, <1>8, <1>9

\* Twins of what a place puts out are of a ligature.
TwinsAt(text, norm, i, last) ==
    LET s == norm[<<i, last>>] IN
    \A k \in 1..(Len(s) - 1) : Twins(s, k) => text[s[k].at] = "fi"

\* So it is at every place.
LEMMA PlaceTwins ==
    ASSUME NEW text \in Seq(Chars), NEW n \in Nat, n = Len(text), NEW norm,
           PutsOut(text, norm)
    PROVE  \A i \in 1..(n + 1) : \A last \in Lasts : TwinsAt(text, norm, i, last)
<1> DEFINE P == {i \in 1..(n + 1) : \A last \in Lasts : TwinsAt(text, norm, i, last)}
<1>1. ASSUME NEW last \in Lasts PROVE TwinsAt(text, norm, n + 1, last)
  <2>1. PICK none : none = <<>> /\ Len(none) = 0
    OBVIOUS
  <2>2. norm[<<n + 1, last>>] = none
    BY <2>1, PlaceEnds
  <2>3. 1..(Len(none) - 1) = {}
    BY <2>1
  <2> QED
    BY <2>2, <2>3 DEF TwinsAt
<1>2. ASSUME NEW i \in 1..n, \A j \in (i + 1)..(n + 1) : j \in P, NEW last \in Lasts
      PROVE  TwinsAt(text, norm, i, last)
  <2>1. PICK out \in Seq(Chars), j \in (i + 1)..(n + 1), l \in Lasts :
            Reads(text, norm, i, last, out, j, l)
    BY PlaceReads
  <2>2. PICK s, r : s = norm[<<i, last>>] /\ r = norm[<<j, l>>]
    OBVIOUS
  <2>3. TwinsAt(text, norm, j, l)
    BY <1>2
  <2> HIDE DEF P
  <2>4. j \in 1..(n + 1)
    OBVIOUS
  <2>5. PICK h \in Nat, m \in Nat : h = Len(out) /\ m = Len(r)
    <3>1. Len(r) \in Nat
      BY <2>2, <2>4, PlaceLen
    <3>2. Len(out) \in Nat
      OBVIOUS
    <3> QED
      BY <3>1, <3>2
  <2>6. /\ Len(s) = h + m /\ GoesOn(s, h, r, m)
        /\ \A p \in 1..h : s[p] = [char |-> out[p], at |-> i]
    BY <2>1, <2>2, <2>5 DEF Reads
  <2>7. out = Taken(text, i, last).out
    BY <2>1, Zenon DEF Reads
  <2>8. ASSUME NEW k \in 1..(h + m - 1), Twins(s, k) PROVE text[s[k].at] = "fi"
    <3>1. CASE k < h
      <4>1. k \in 1..h /\ Len(out) > 1
        BY <2>5, <3>1
      <4>2. s[k] = [char |-> out[k], at |-> i]
        BY <2>6, <4>1
      <4>3. s[k].at = i
        BY <4>2
      <4>4. text[i] = "fi"
        BY <2>7, <4>1, TakenTwo
      <4> QED
        BY <4>3, <4>4
    <3>2. CASE k = h
      <4>1. k \in 1..h /\ 1 \in 1..m /\ k + 1 = h + 1
        BY <3>2
      <4>2. s[k] = [char |-> out[k], at |-> i]
        BY <2>6, <4>1
      <4>3. s[k].at = i
        BY <4>2
      <4>4. s[k + 1] = r[1]
        BY <2>6, <4>1 DEF GoesOn
      <4>5. j <= r[1].at
        <5>1. Maps(text, r, j)
          BY <2>2, <2>4, PlaceMaps
        <5> QED
          BY <2>5, <4>1, <5>1 DEF Maps
      <4>6. r[1].at = i
        BY <2>8, <4>3, <4>4 DEF Twins
      <4> QED
        BY <4>5, <4>6
    <3>3. CASE k > h
      <4>1. PICK f \in 1..(m - 1) : k = h + f /\ k + 1 = h + (f + 1)
        <5>1. /\ k - h \in 1..(m - 1) /\ k = h + (k - h)
              /\ k + 1 = h + ((k - h) + 1)
          BY <3>3
        <5> QED
          BY <5>1
      <4>2. f \in 1..m /\ f + 1 \in 1..m
        OBVIOUS
      <4>3. s[k] = r[f] /\ s[k + 1] = r[f + 1]
        BY <2>6, <4>1, <4>2 DEF GoesOn
      <4>4. Twins(r, f)
        BY <2>8, <4>3 DEF Twins
      <4>5. text[r[f].at] = "fi"
        BY <2>2, <2>3, <2>5, <4>4 DEF TwinsAt
      <4> QED
        BY <4>3, <4>5
    <3>4. k < h \/ k = h \/ k > h
      OBVIOUS
    <3> QED
      BY <3>1, <3>2, <3>3, <3>4
  <2>9. 1..(Len(s) - 1) = 1..(h + m - 1)
    BY <2>6
  <2>10. \A k \in 1..(Len(s) - 1) : Twins(s, k) => text[s[k].at] = "fi"
    BY <2>8, <2>9
  <2> QED
    BY <2>2, <2>10, Zenon DEF TwinsAt
<1>3. ASSUME NEW i \in 1..(n + 1), \A j \in (i + 1)..(n + 1) : j \in P PROVE i \in P
  <2>1. CASE i = n + 1
    BY <1>1, <2>1
  <2>2. CASE i \in 1..n
    BY <1>2, <1>3, <2>2
  <2> QED
    BY <2>1, <2>2
<1>4. \A i \in 1..(n + 1) : i \in P
  <2> HIDE DEF P
  <2>1. n + 1 \in Nat
    OBVIOUS
  <2> QED
    BY <1>3, <2>1, DownInduction
<1> QED
  BY <1>4

\* At i out is put out, and <<j, l>> is where to read on.
TakesTo(text, i, last, out, j, l) ==
    Taken(text, i, last).out = out /\ Taken(text, i, last).next = <<j, l>>

\* The slice is read as the text is.
LEMMA TakesSlice ==
    ASSUME NEW text \in Seq(Chars), NEW slice, NEW d, Within(slice, text, d),
           NEW k \in 1..Len(slice), NEW last \in Lasts, NEW out, NEW j \in Nat, NEW l,
           TakesTo(text, d + k, last, out, j, l),
           out /= <<>> \/ j <= d + Len(slice)
    PROVE  TakesTo(slice, k, last, out, j - d, l)
<1>1. PICK n \in Nat : n = Len(text)
  OBVIOUS
<1>2. Taken(text, d + k, last).out = out /\ Taken(text, d + k, last).next = <<j, l>>
  BY DEF TakesTo
<1>3. /\ Taken(slice, k, last).out = out
      /\ Taken(slice, k, last).next = <<j - d, l>>
  BY <1>1, <1>2, TakenSlice
<1> QED
  BY <1>3 DEF TakesTo

\* A place after d at which something of the text at e is still put out: what
\* the slice puts out from there on is how it begins.
FollowsAt(norm, cut, d, e, i, last) ==
    d < i => \A m \in 1..Len(norm[<<i, last>>]) :
                norm[<<i, last>>][m].at = e =>
                    i <= e /\ Begins(cut[<<i - d, last>>], norm[<<i, last>>], m)

\* ... where the last of it is put out,
LEMMA FollowsLast ==
    ASSUME NEW text \in Seq(Chars), NEW n \in Nat, n = Len(text), NEW norm,
           PutsOut(text, norm), NEW slice, NEW d \in Nat, Within(slice, text, d),
           NEW cut, PutsOut(slice, cut), NEW c \in Nat, c = Len(slice), c > 0,
           NEW i \in 1..n, i = d + c, NEW last \in Lasts,
           NEW out \in Seq(Chars), NEW j \in (i + 1)..(n + 1), NEW l \in Lasts,
           Reads(text, norm, i, last, out, j, l),
           NEW m \in 1..Len(out)
    PROVE  Begins(cut[<<c, last>>], norm[<<i, last>>], m)
<1>1. PICK a, b, r : a = norm[<<i, last>>] /\ b = cut[<<c, last>>] /\ r = norm[<<j, l>>]
  OBVIOUS
<1>2. out = Taken(text, i, last).out /\ <<j, l>> = Taken(text, i, last).next
  BY Zenon DEF Reads
<1>3. PICK h \in Nat : h = Len(out) /\ out /= <<>>
  OBVIOUS
<1>4. h \in 1..2 /\ j = i + 1
  <2>1. Len(out) \in 1..2 /\ Taken(text, i, last).next[1] = i + 1
    BY <1>2, <1>3, TakenOne
  <2>0. PICK p : p = <<j, l>>
    OBVIOUS
  <2>2. p[1] = j
    BY <2>0
  <2>3. p[1] = i + 1
    BY <1>2, <2>0, <2>1, Zenon
  <2> QED
    BY <1>3, <2>1, <2>2, <2>3
<1>5. slice \in Seq(Chars)
  BY DEF Within
<1>6. PICK k \in 1..c : k = c /\ d + k = i
  OBVIOUS
<1>7. /\ Taken(slice, k, last).out = out
      /\ Taken(slice, k, last).next = <<j - d, l>>
  <2>1. k \in 1..Len(slice) /\ j \in Nat
    OBVIOUS
  <2>2. TakesTo(text, d + k, last, out, j, l)
    BY <1>2, <1>6 DEF TakesTo
  <2>3. out /= <<>> \/ j <= d + Len(slice)
    BY <1>3
  <2>4. TakesTo(slice, k, last, out, j - d, l)
    BY <2>1, <2>2, <2>3, TakesSlice
  <2> QED
    BY <2>4 DEF TakesTo
<1>8. PICK o \in Seq(Chars), x \in (k + 1)..(c + 1), y \in Lasts :
          Reads(slice, cut, k, last, o, x, y)
  BY <1>5, PlaceReads
<1>9. o = out /\ <<x, y>> = <<j - d, l>>
  <2>1. o = Taken(slice, k, last).out /\ <<x, y>> = Taken(slice, k, last).next
    BY <1>8, Zenon DEF Reads
  <2> QED
    BY <1>7, <2>1
<1>10. PICK s : s = cut[<<x, y>>]
  OBVIOUS
<1>11. s = <<>>
  <2>1. x = c + 1
    BY <1>6
  <2>2. cut[<<c + 1, y>>] = <<>>
    BY <1>5, PlaceEnds
  <2> QED
    BY <1>10, <2>1, <2>2
<1>12. Len(s) = 0
  BY <1>11
<1>13. /\ Len(b) = h + Len(s)
       /\ \A q \in 1..h : b[q] = [char |-> out[q], at |-> k]
  BY <1>1, <1>3, <1>6, <1>8, <1>9, <1>10 DEF Reads
<1>14. PICK u \in Nat : u = Len(r)
  <2>1. j \in 1..(n + 1)
    OBVIOUS
  <2> QED
    BY <1>1, <2>1, PlaceLen
<1>15. /\ Len(a) = h + u
       /\ \A q \in 1..h : a[q] = [char |-> out[q], at |-> i]
  BY <1>1, <1>3, <1>14 DEF Reads
<1>16. Same(b, a, h)
  <2> SUFFICES ASSUME NEW q \in 1..h PROVE b[q].char = a[q].char
    BY DEF Same
  <2>1. b[q].char = out[q]
    <3>1. b[q] = [char |-> out[q], at |-> k]
      BY <1>13
    <3> QED
      BY <3>1
  <2>2. a[q].char = out[q]
    <3>1. a[q] = [char |-> out[q], at |-> i]
      BY <1>15
    <3> QED
      BY <3>1
  <2> QED
    BY <2>1, <2>2
<1>17. h \in m..(m + 1) /\ h = Len(b) /\ h <= Len(a)
  <2>1. m \in 1..h
    BY <1>3
  <2> QED
    BY <1>4, <1>12, <1>13, <1>15, <2>1
<1>19. ASSUME h > m PROVE Twins(a, m)
  <2>1. m \in 1..h /\ m + 1 \in 1..h
    BY <1>3, <1>19
  <2>2. /\ a[m] = [char |-> out[m], at |-> i]
        /\ a[m + 1] = [char |-> out[m + 1], at |-> i]
    BY <1>15, <2>1
  <2> QED
    BY <2>2 DEF Twins
<1>18. Begins(b, a, m)
  BY <1>16, <1>17, <1>19 DEF Begins
<1> QED
  BY <1>1, <1>18

\* ... and where something follows it.
LEMMA FollowsOn ==
    ASSUME NEW text \in Seq(Chars), NEW n \in Nat, n = Len(text), NEW norm,
           PutsOut(text, norm), NEW slice, NEW d \in Nat, Within(slice, text, d),
           NEW cut, PutsOut(slice, cut), NEW c \in Nat, c = Len(slice),
           NEW i \in 1..n, NEW k \in 1..c, i = d + k, NEW last \in Lasts,
           NEW out \in Seq(Chars), NEW j \in (i + 1)..(n + 1), NEW l \in Lasts,
           Reads(text, norm, i, last, out, j, l), j <= d + c,
           NEW f \in Nat \ {0}, Begins(cut[<<j - d, l>>], norm[<<j, l>>], f)
    PROVE  Begins(cut[<<k, last>>], norm[<<i, last>>], Len(out) + f)
<1>1. PICK a, b, r, s : /\ a = norm[<<i, last>>] /\ b = cut[<<k, last>>]
                        /\ r = norm[<<j, l>>] /\ s = cut[<<j - d, l>>]
  OBVIOUS
<1>2. out = Taken(text, i, last).out /\ <<j, l>> = Taken(text, i, last).next
  BY Zenon DEF Reads
<1>3. PICK h \in Nat : h = Len(out)
  OBVIOUS
<1>4. slice \in Seq(Chars)
  BY DEF Within
<1>5. TakesTo(slice, k, last, out, j - d, l)
  <2>1. k \in 1..Len(slice) /\ j \in Nat
    OBVIOUS
  <2>2. TakesTo(text, d + k, last, out, j, l)
    BY <1>2 DEF TakesTo
  <2>3. out /= <<>> \/ j <= d + Len(slice)
    OBVIOUS
  <2> QED
    BY <2>1, <2>2, <2>3, TakesSlice
<1>6. PICK o \in Seq(Chars), x \in (k + 1)..(c + 1), y \in Lasts :
          Reads(slice, cut, k, last, o, x, y)
  BY <1>4, PlaceReads
<1>7. o = out /\ <<x, y>> = <<j - d, l>>
  <2>1. o = Taken(slice, k, last).out /\ <<x, y>> = Taken(slice, k, last).next
    BY <1>6, Zenon DEF Reads
  <2> QED
    BY <1>5, <2>1 DEF TakesTo
<1>8. PICK u \in Nat : u = Len(r)
  <2>1. j \in 1..(n + 1)
    OBVIOUS
  <2>2. Len(norm[<<j, l>>]) \in Nat
    BY <2>1, PlaceLen
  <2> QED
    BY <1>1, <2>2
<1>9. PICK q \in Nat : q = Len(s)
  <2>1. x \in 1..(c + 1)
    OBVIOUS
  <2>2. Len(cut[<<x, y>>]) \in Nat
    BY <1>4, <2>1, PlaceLen
  <2>3. s = cut[<<x, y>>]
    BY <1>1, <1>7
  <2> QED
    BY <2>2, <2>3
<1>10. /\ Len(a) = h + u /\ GoesOn(a, h, r, u)
       /\ \A p \in 1..h : a[p] = [char |-> out[p], at |-> i]
  BY <1>1, <1>3, <1>8 DEF Reads
<1>11. /\ Len(b) = h + q /\ GoesOn(b, h, s, q)
       /\ \A p \in 1..h : b[p] = [char |-> out[p], at |-> k]
  <2>1. s = cut[<<x, y>>] /\ h = Len(o)
    BY <1>1, <1>3, <1>7
  <2>2. /\ Len(b) = h + q /\ GoesOn(b, h, s, q)
        /\ \A p \in 1..h : b[p] = [char |-> o[p], at |-> k]
    BY <1>1, <1>6, <1>9, <2>1 DEF Reads
  <2> QED
    BY <1>7, <2>2
<1>12. Same(b, a, h)
  <2> SUFFICES ASSUME NEW p \in 1..h PROVE b[p].char = a[p].char
    BY DEF Same
  <2>1. b[p].char = out[p]
    <3>1. b[p] = [char |-> out[p], at |-> k]
      BY <1>11
    <3> QED
      BY <3>1
  <2>2. a[p].char = out[p]
    <3>1. a[p] = [char |-> out[p], at |-> i]
      BY <1>10
    <3> QED
      BY <3>1
  <2> QED
    BY <2>1, <2>2
<1>13. Begins(s, r, f)
  BY <1>1
<1>14. Begins(b, a, h + f)
  BY <1>8, <1>9, <1>10, <1>11, <1>12, <1>13, BeginsOn
<1> QED
  BY <1>1, <1>3, <1>14

\* The slice stands in the text after d, and both are put out.
Sliced(text, norm, slice, cut, d) ==
    PutsOut(text, norm) /\ Within(slice, text, d) /\ PutsOut(slice, cut)

\* i is k in the slice, and what follows it, at <<j, l>>, is in the slice too.
NextIn(text, norm, slice, d, i, k, last, h, j, l) ==
    /\ i \in 1..Len(text) /\ k \in 1..Len(slice) /\ i = d + k /\ j <= d + Len(slice)
    /\ \E out \in Seq(Chars) :
          /\ j \in (i + 1)..(Len(text) + 1) /\ h = Len(out)
          /\ Reads(text, norm, i, last, out, j, l)

\* That is FollowsOn.
LEMMA FollowsNext ==
    ASSUME NEW text \in Seq(Chars), NEW norm, NEW slice, NEW cut, NEW d \in Nat,
           Sliced(text, norm, slice, cut, d), NEW i, NEW k, NEW last \in Lasts,
           NEW h, NEW j, NEW l \in Lasts,
           NextIn(text, norm, slice, d, i, k, last, h, j, l),
           NEW f \in Nat \ {0}, Begins(cut[<<j - d, l>>], norm[<<j, l>>], f)
    PROVE  Begins(cut[<<k, last>>], norm[<<i, last>>], h + f)
<1>1. PICK n \in Nat : n = Len(text)
  OBVIOUS
<1>2. PICK c \in Nat : c = Len(slice)
  <2>1. slice \in Seq(Chars)
    BY DEF Sliced, Within
  <2> QED
    BY <2>1
<1>3. /\ i \in 1..n /\ k \in 1..c /\ i = d + k /\ j <= d + c
  BY <1>1, <1>2 DEF NextIn
<1>4. PICK out \in Seq(Chars) : /\ j \in (i + 1)..(n + 1) /\ h = Len(out)
                               /\ Reads(text, norm, i, last, out, j, l)
  BY <1>1 DEF NextIn
<1>5. PutsOut(text, norm) /\ Within(slice, text, d) /\ PutsOut(slice, cut)
  BY DEF Sliced
<1>6. Begins(cut[<<k, last>>], norm[<<i, last>>], Len(out) + f)
  BY <1>1, <1>2, <1>3, <1>4, <1>5, FollowsOn, ZenonT(40)
<1> QED
  BY <1>4, <1>6

\* So it is from every place on.
LEMMA SliceFollows ==
    ASSUME NEW text \in Seq(Chars), NEW n \in Nat, n = Len(text), NEW norm,
           PutsOut(text, norm), NEW slice, NEW d \in Nat, Within(slice, text, d),
           NEW cut, PutsOut(slice, cut), NEW c \in Nat, c = Len(slice), c > 0
    PROVE  \A i \in 1..(n + 1) : \A last \in Lasts :
              FollowsAt(norm, cut, d, d + c, i, last)
<1> DEFINE P == {i \in 1..(n + 1) : \A last \in Lasts :
                    FollowsAt(norm, cut, d, d + c, i, last)}
<1>1. ASSUME NEW last \in Lasts PROVE FollowsAt(norm, cut, d, d + c, n + 1, last)
  <2>1. PICK none : none = <<>> /\ Len(none) = 0
    OBVIOUS
  <2>2. norm[<<n + 1, last>>] = none
    BY <2>1, PlaceEnds
  <2>3. 1..Len(norm[<<n + 1, last>>]) = {}
    BY <2>1, <2>2
  <2> QED
    BY <2>3 DEF FollowsAt
<1>2. ASSUME NEW i \in 1..n, \A j \in (i + 1)..(n + 1) : j \in P, NEW last \in Lasts
      PROVE  FollowsAt(norm, cut, d, d + c, i, last)
  <2>1. PICK out \in Seq(Chars), j \in (i + 1)..(n + 1), l \in Lasts :
            Reads(text, norm, i, last, out, j, l)
    BY PlaceReads
  <2>2. PICK a, r : a = norm[<<i, last>>] /\ r = norm[<<j, l>>]
    OBVIOUS
  <2>3. FollowsAt(norm, cut, d, d + c, j, l)
    BY <1>2
  <2> HIDE DEF P
  <2>4. PICK h \in Nat, u \in Nat : h = Len(out) /\ u = Len(r)
    <3>1. j \in 1..(n + 1)
      OBVIOUS
    <3>2. Len(r) \in Nat
      BY <2>2, <3>1, PlaceLen
    <3>3. Len(out) \in Nat
      OBVIOUS
    <3> QED
      BY <3>2, <3>3
  <2>5. /\ Len(a) = h + u /\ GoesOn(a, h, r, u)
        /\ \A p \in 1..h : a[p] = [char |-> out[p], at |-> i]
    BY <2>1, <2>2, <2>4 DEF Reads
  <2>6. ASSUME d < i, NEW m \in 1..(h + u), a[m].at = d + c
        PROVE  i <= d + c /\ Begins(cut[<<i - d, last>>], a, m)
    <3>1. i <= a[m].at
      <4>1. i \in 1..(n + 1) /\ m \in 1..Len(a)
        BY <2>5
      <4>2. Maps(text, a, i)
        BY <2>2, <4>1, PlaceMaps
      <4> QED
        BY <4>1, <4>2 DEF Maps
    <3>2. i <= d + c
      BY <2>6, <3>1
    <3>3. PICK k \in 1..c : k = i - d /\ i = d + k
      <4>1. i - d \in 1..c /\ i = d + (i - d)
        BY <2>6, <3>2
      <4> QED
        BY <4>1
    <3>4. CASE m <= h
      <4>1. m \in 1..h
        BY <3>4
      <4>2. a[m].at = i
        <5>1. a[m] = [char |-> out[m], at |-> i]
          BY <2>5, <4>1
        <5> QED
          BY <5>1
      <4>3. i = d + c /\ k = c
        BY <2>6, <3>3, <4>2, SMTT(40)
      <4>4. m \in 1..Len(out)
        BY <2>4, <4>1
      <4>5. Begins(cut[<<c, last>>], norm[<<i, last>>], m)
        BY <2>1, <4>3, <4>4, FollowsLast
      <4> QED
        BY <2>2, <3>2, <3>3, <4>3, <4>5
    <3>5. CASE m > h
      <4>1. PICK f \in 1..u : m = h + f
        <5>1. m - h \in 1..u /\ m = h + (m - h)
          BY <3>5
        <5> QED
          BY <5>1
      <4>2. a[m] = r[f]
        BY <2>5, <4>1 DEF GoesOn
      <4>3. r[f].at = d + c
        BY <2>6, <4>2
      <4>4. d < j
        BY <2>6
      <4>5. f \in 1..Len(norm[<<j, l>>]) /\ norm[<<j, l>>][f].at = d + c
        BY <2>2, <2>4, <4>1, <4>3
      <4>6. j <= d + c /\ Begins(cut[<<j - d, l>>], norm[<<j, l>>], f)
        BY <2>3, <4>4, <4>5 DEF FollowsAt
      <4>7. NextIn(text, norm, slice, d, i, k, last, h, j, l)
        BY <2>1, <2>4, <3>3, <4>6 DEF NextIn
      <4>8. Sliced(text, norm, slice, cut, d)
        BY DEF Sliced
      <4>0. f \in Nat \ {0}
        OBVIOUS
      <4>9. Begins(cut[<<k, last>>], norm[<<i, last>>], h + f)
        BY <4>0, <4>6, <4>7, <4>8, FollowsNext, Zenon
      <4> QED
        BY <2>2, <3>2, <3>3, <4>1, <4>9
    <3>6. m <= h \/ m > h
      OBVIOUS
    <3> QED
      BY <3>4, <3>5, <3>6
  <2> QED
    BY <2>2, <2>5, <2>6 DEF FollowsAt
<1>3. ASSUME NEW i \in 1..(n + 1), \A j \in (i + 1)..(n + 1) : j \in P PROVE i \in P
  <2>1. CASE i = n + 1
    BY <1>1, <2>1
  <2>2. CASE i \in 1..n
    BY <1>2, <1>3, <2>2
  <2> QED
    BY <2>1, <2>2
<1>4. \A i \in 1..(n + 1) : i \in P
  <2> HIDE DEF P
  <2>1. n + 1 \in Nat
    OBVIOUS
  <2> QED
    BY <1>3, <2>1, DownInduction
<1> QED
  BY <1>4

\* A slice of a text stands in it.
LEMMA SliceIs ==
    ASSUME NEW text \in Seq(Chars), NEW s \in 1..Len(text), NEW e \in 1..Len(text), s <= e
    PROVE  /\ Within(SubSeq(text, s, e), text, s - 1)
           /\ Len(SubSeq(text, s, e)) = e - s + 1
<1>1. PICK n \in Nat : n = Len(text)
  OBVIOUS
<1>2. PICK v : v = SubSeq(text, s, e)
  OBVIOUS
<1>3. v \in Seq(Chars) /\ Len(v) = e - s + 1
  BY <1>1, <1>2
<1>4. \A k \in 1..(e - s + 1) : v[k] = text[(s - 1) + k]
  BY <1>1, <1>2
<1>5. s - 1 \in Nat /\ (s - 1) + (e - s + 1) <= n
  BY <1>1
<1> QED
  BY <1>1, <1>2, <1>3, <1>4, <1>5 DEF Within

\* c are the characters of a from d on, up to the e-th, or one more.
Recurs(a, c, d, e) ==
    /\ c \in Seq(Puts) /\ Len(c) \in (e - d)..((e - d) + 1)
    /\ \A k \in 1..(e - d) : c[k].char = a[d + k].char

\* The slice puts out what the text does between the f-th character and the
\* e-th, and one more at an end only if it is a ligature.
RecursFrom(text, a, f, e) ==
    \E d \in Nat :
       /\ f - d \in 1..2 /\ (f - d = 2 => text[a[f].at] = "fi")
       /\ Recurs(a, Normalize(SubSeq(text, a[f].at, a[e].at)), d, e)
       /\ Len(Normalize(SubSeq(text, a[f].at, a[e].at))) > e - d =>
             text[a[e].at] = "fi"

\* So does every slice of a text that starts and ends at no space.
LEMMA SliceRecurs ==
    ASSUME NEW text \in Seq(Chars), NEW norm, PutsOut(text, norm),
           NEW a, NEW f \in Nat, Shows(norm, a, f), NEW e \in f..Len(a)
    PROVE  RecursFrom(text, a, f, e)
<1>1. PICK n \in Nat : n = Len(text)
  OBVIOUS
<1>2. PICK d \in Nat, s \in 1..n : RestartsAt(norm, a, f, d, s)
  BY <1>1, Restarts
<1>3. PICK b : b = norm[<<s, "none">>]
  OBVIOUS
<1>4. 1 \in 1..(n + 1) /\ s \in 1..(n + 1) /\ "none" \in Lasts
  BY DEF Lasts
<1>5. a = norm[<<1, "none">>] /\ f \in 1..Len(a)
  BY DEF Shows
<1>6. Maps(text, a, 1)
  BY <1>1, <1>4, <1>5, PlaceMaps
<1>7. PICK l \in Nat, u \in Nat : l = Len(a) /\ u = Len(b)
  <2>1. Len(norm[<<1, "none">>]) \in Nat /\ Len(norm[<<s, "none">>]) \in Nat
    BY <1>1, <1>4, PlaceLen
  <2> QED
    BY <1>3, <1>5, <2>1
<1>8. s = a[f].at /\ f - d \in 1..2 /\ l = d + u /\ GoesOn(a, d, b, u)
  BY <1>2, <1>3, <1>5, <1>7 DEF RestartsAt, Stems
<1>9. PICK m \in 1..u : m = e - d /\ e = d + m
  <2>1. e \in f..l /\ f \in 1..l
    BY <1>5, <1>7
  <2>2. e - d \in 1..u /\ e = d + (e - d)
    BY <1>8, <2>1
  <2> QED
    BY <2>2
<1>10. PICK z : z = a[e].at
  OBVIOUS
<1>11. z \in s..n
  <2>1. f \in 1..l /\ e \in 1..l /\ f <= e
    BY <1>5, <1>7
  <2>2. a[f].at <= a[e].at /\ a[e].at <= n
    BY <1>1, <1>6, <1>7, <2>1 DEF Maps
  <2>3. a[e].at \in Nat
    <3>1. a \in Seq(Puts)
      BY <1>6 DEF Maps
    <3>2. a[e] \in Puts
      BY <1>7, <2>1, <3>1
    <3> QED
      BY <3>2 DEF Puts
  <2> QED
    BY <1>8, <1>10, <2>2, <2>3
<1>12. b[m].at = z
  <2>1. a[d + m] = b[m]
    BY <1>8 DEF GoesOn
  <2> QED
    BY <1>9, <1>10, <2>1
<1>13. PICK v : v = SubSeq(text, s, z)
  OBVIOUS
<1>14. PICK w \in Nat : w = s - 1
  BY <1>4
<1>15. PICK c \in Nat : c = z - s + 1 /\ c > 0 /\ w + c = z
  <2>1. z - s + 1 \in Nat /\ z - s + 1 > 0 /\ w + (z - s + 1) = z
    BY <1>11, <1>14
  <2> QED
    BY <2>1
<1>16. Within(v, text, w) /\ c = Len(v)
  <2>1. s \in 1..Len(text) /\ z \in 1..Len(text) /\ s <= z
    BY <1>1, <1>11
  <2> QED
    BY <1>13, <1>14, <1>15, <2>1, SliceIs
<1>17. v \in Seq(Chars)
  BY <1>16 DEF Within
<1>18. PICK cut : PutsOut(v, cut) /\ Normalize(v) = cut[<<1, "none">>]
  BY <1>17, NormalizeSteps
<1>19. FollowsAt(norm, cut, w, w + c, s, "none")
  BY <1>1, <1>4, <1>15, <1>16, <1>18, SliceFollows
<1>20. Begins(cut[<<1, "none">>], b, m)
  <2>1. w < s /\ s - w = 1
    BY <1>14
  <2>2. m \in 1..Len(norm[<<s, "none">>]) /\ norm[<<s, "none">>][m].at = w + c
    BY <1>3, <1>7, <1>12, <1>15
  <2>3. Begins(cut[<<s - w, "none">>], norm[<<s, "none">>], m)
    BY <1>19, <2>1, <2>2 DEF FollowsAt
  <2> QED
    BY <1>3, <2>1, <2>3
<1>21. PICK x : x = Normalize(v)
  OBVIOUS
<1>22. x \in Seq(Puts)
  BY <1>17, <1>21, NormalizeMaps DEF Maps
<1>23. /\ Len(x) \in m..(m + 1) /\ \A k \in 1..m : x[k].char = b[k].char
       /\ Len(x) > m => m + 1 \in 1..u /\ Twins(b, m)
  <2>1. PICK len \in Nat : /\ len \in m..(m + 1) /\ len = Len(x) /\ len <= u
                           /\ Same(x, b, len) /\ (len > m => Twins(b, m))
    BY <1>7, <1>18, <1>20, <1>21 DEF Begins
  <2>2. \A k \in 1..m : k \in 1..len
    BY <2>1
  <2> QED
    BY <2>1, <2>2 DEF Same
<1>24. \A k \in 1..m : x[k].char = a[d + k].char
  <2> SUFFICES ASSUME NEW k \in 1..m PROVE x[k].char = a[d + k].char
    OBVIOUS
  <2>1. k \in 1..u
    OBVIOUS
  <2>2. a[d + k] = b[k]
    BY <1>8, <2>1 DEF GoesOn
  <2> QED
    BY <1>23, <2>2
<1>25. Recurs(a, x, d, e)
  BY <1>9, <1>22, <1>23, <1>24 DEF Recurs
<1>26. \A k \in 1..(l - 1) : Twins(a, k) => text[a[k].at] = "fi"
  <2>1. TwinsAt(text, norm, 1, "none")
    BY <1>1, <1>4, PlaceTwins
  <2> QED
    BY <1>5, <1>7, <2>1 DEF TwinsAt
<1>27. ASSUME f - d = 2 PROVE text[s] = "fi"
  <2>1. PICK k \in 1..(l - 1) : k = d + 1 /\ k + 1 = f /\ k \in 1..l /\ f \in 1..l
    <3>1. d + 1 \in 1..(l - 1) /\ (d + 1) + 1 = f
      BY <1>5, <1>7, <1>27
    <3> QED
      BY <3>1
  <2>2. a[k] = b[1] /\ 1 \in 1..u
    <3>1. 1 \in 1..u
      BY <1>8, <2>1
    <3> QED
      BY <1>8, <2>1, <3>1 DEF GoesOn
  <2>3. s <= b[1].at
    <3>1. Maps(text, b, s)
      BY <1>1, <1>3, <1>4, PlaceMaps
    <3> QED
      BY <1>7, <2>2, <3>1 DEF Maps
  <2>4. a[k].at <= a[f].at
    BY <1>6, <1>7, <2>1 DEF Maps
  <2>5. a[k].at = s
    <3>1. a[k].at \in Nat
      <4>1. a \in Seq(Puts)
        BY <1>6 DEF Maps
      <4>2. a[k] \in Puts
        BY <1>7, <2>1, <4>1
      <4> QED
        BY <4>2 DEF Puts
    <3>2. s <= a[k].at /\ a[k].at <= s
      BY <1>8, <2>2, <2>3, <2>4
    <3> QED
      BY <3>1, <3>2
  <2>6. Twins(a, k)
    BY <1>8, <2>1, <2>5 DEF Twins
  <2> QED
    BY <1>26, <2>1, <2>5, <2>6
<1>28. ASSUME Len(x) > m PROVE text[z] = "fi"
  <2>1. m + 1 \in 1..u /\ Twins(b, m)
    BY <1>23, <1>28
  <2>2. e \in 1..(l - 1) /\ d + (m + 1) = e + 1
    BY <1>8, <1>9, <2>1
  <2>3. a[d + m] = b[m] /\ a[d + (m + 1)] = b[m + 1]
    BY <1>8, <2>1 DEF GoesOn
  <2>4. Twins(a, e)
    BY <1>9, <2>1, <2>2, <2>3 DEF Twins
  <2> QED
    BY <1>10, <1>26, <2>2, <2>4
<1>29. Len(x) > e - d => text[z] = "fi"
  BY <1>9, <1>28
<1> QED
  BY <1>8, <1>10, <1>13, <1>21, <1>25, <1>27, <1>29 DEF RecursFrom

\* All but the last of m + 1.
LEMMA FrontIs ==
    ASSUME NEW s \in Seq(Chars), NEW m \in Nat, Len(s) = m + 1
    PROVE  /\ Front(s) \in Seq(Chars) /\ Len(Front(s)) = m
           /\ \A k \in 1..m : Front(s)[k] = s[k]
<1>1. PICK t : t = SubSeq(s, 1, m)
  OBVIOUS
<1>2. t \in Seq(Chars) /\ Len(t) = m /\ \A k \in 1..m : t[k] = s[k]
  BY <1>1
<1>3. Len(s) - 1 = m
  OBVIOUS
<1>4. Front(s) = t
  BY <1>1, <1>3 DEF Front
<1> QED
  BY <1>2, <1>4

\* The m-th character is no space.
Ink(s, m) == s[m] /= " "

\* Of the end of a text no more than one space is cut off.
LEMMA TrimmedIs ==
    ASSUME NEW s \in Seq(Chars), NEW m \in Nat, m > 0, Len(s) \in m..(m + 1), Ink(s, m)
    PROVE  /\ TrimEnd(s) \in Seq(Chars) /\ Len(TrimEnd(s)) \in m..Len(s)
           /\ \A k \in 1..m : TrimEnd(s)[k] = s[k]
<1>1. PICK l \in Nat : l = Len(s) /\ l \in m..(m + 1)
  OBVIOUS
<1>2. CASE TrimEnd(s) = s
  BY <1>2
<1>3. CASE l = m + 1 /\ TrimEnd(s) = Front(s)
  <2>1. /\ Front(s) \in Seq(Chars) /\ Len(Front(s)) = m
        /\ \A k \in 1..m : Front(s)[k] = s[k]
    BY <1>1, <1>3, FrontIs
  <2> QED
    BY <1>3, <2>1
<1>4. CASE l = m
  <2>1. s[l] /= " "
    BY <1>4 DEF Ink
  <2>2. Last(s) /= " "
    BY <1>1, <2>1 DEF Last
  <2>3. TrimEnd(s) = s
    BY <2>2 DEF TrimEnd
  <2> QED
    BY <1>2, <2>3
<1>5. TrimEnd(s) \in {s, Front(s)}
  BY DEF TrimEnd
<1>6. l \in {m, m + 1}
  BY <1>1
<1> QED
  BY <1>2, <1>3, <1>4, <1>5, <1>6

\* Texts that neither start nor end with a space.
Bare == {p \in Seq(Chars) : p /= <<>> /\ Ink(p, 1) /\ Ink(p, Len(p))}

\* What is left of a normalized text is such a text.
LEMMA NormalizedBare ==
    ASSUME NEW text \in Seq(Chars), Normalized(text) /= <<>>
    PROVE  Normalized(text) \in Bare
<1>1. PICK norm : PutsOut(text, norm) /\ Normalize(text) = norm[<<1, "none">>]
  BY NormalizeSteps
<1>2. PICK n \in Nat : n = Len(text)
  OBVIOUS
<1>3. PICK a : a = Normalize(text)
  OBVIOUS
<1>4. a \in Seq(Puts)
  BY <1>3, NormalizeMaps DEF Maps
<1>5. PICK l \in Nat : l = Len(a)
  BY <1>4
<1>6. Tidy(a, l, "none")
  <2>1. 1 \in 1..(n + 1) /\ "none" \in Lasts
    BY DEF Lasts
  <2>2. TidyAt(norm, 1, "none")
    BY <1>1, <1>2, <2>1, PlaceTidy
  <2> QED
    BY <1>1, <1>3, <1>5, <2>2 DEF TidyAt
<1>7. PICK s \in Seq(Chars) : s = CharsOf(a) /\ Len(s) = l
  BY <1>4, <1>5, CharsOfIs
<1>8. \A k \in 1..l : s[k] = a[k].char
  BY <1>5, <1>7 DEF CharsOf
<1>9. l > 0 => Ink(s, 1)
  <2> SUFFICES ASSUME l > 0 PROVE Ink(s, 1)
    OBVIOUS
  <2>1. Starts(a, l, " ")
    BY <1>6 DEF Tidy
  <2>2. a[1].char /= " "
    BY <2>1 DEF Starts
  <2>3. s[1] = a[1].char
    BY <1>8
  <2> QED
    BY <2>2, <2>3 DEF Ink
<1>10. \A k \in 1..(l - 1) : Ink(s, k) \/ Ink(s, k + 1)
  <2> SUFFICES ASSUME NEW k \in 1..(l - 1) PROVE Ink(s, k) \/ Ink(s, k + 1)
    OBVIOUS
  <2>1. Spaced(a, l, " ")
    BY <1>6 DEF Tidy
  <2>2. a[k].char = " " => a[k + 1].char /= " "
    BY <2>1 DEF Spaced
  <2>3. s[k] = a[k].char /\ s[k + 1] = a[k + 1].char
    BY <1>8
  <2> QED
    BY <2>2, <2>3 DEF Ink
<1>11. PICK t : t = TrimEnd(s) /\ t = Normalized(text)
  BY <1>3, <1>7 DEF Normalized
<1>12. CASE s /= <<>> /\ Last(s) = " "
  <2>1. t = Front(s)
    BY <1>11, <1>12 DEF TrimEnd
  <2>2. l > 0 /\ ~Ink(s, l)
    <3>1. s /= <<>>
      BY <1>12
    <3>2. l > 0
      BY <1>7, <3>1
    <3>3. Last(s) = s[l]
      BY <1>7 DEF Last
    <3>4. s[l] = " "
      BY <1>12, <3>3
    <3> QED
      BY <3>2, <3>4 DEF Ink
  <2>3. PICK m \in Nat : l = m + 1
    <3>1. l - 1 \in Nat /\ l = (l - 1) + 1
      BY <2>2
    <3> QED
      BY <3>1
  <2>4. t \in Seq(Chars) /\ Len(t) = m /\ \A k \in 1..m : t[k] = s[k]
    BY <1>7, <2>1, <2>3, FrontIs
  <2>5. m > 0
    <3> SUFFICES ASSUME m = 0 PROVE FALSE
      OBVIOUS
    <3>1. l = 1
      BY <2>3
    <3> QED
      BY <1>9, <2>2, <3>1
  <2>6. Ink(s, m) /\ Ink(s, 1)
    <3>1. m \in 1..(l - 1) /\ l = m + 1
      BY <2>3, <2>5
    <3> QED
      BY <1>9, <1>10, <2>2, <3>1
  <2>7. Ink(t, m) /\ Ink(t, 1)
    <3>1. m \in 1..m /\ 1 \in 1..m
      BY <2>5
    <3>2. t[m] = s[m] /\ t[1] = s[1]
      BY <2>4, <3>1
    <3> QED
      BY <2>6, <3>2 DEF Ink
  <2> QED
    BY <1>11, <2>4, <2>7 DEF Bare
<1>13. CASE ~(s /= <<>> /\ Last(s) = " ")
  <2>1. t = s
    BY <1>11, <1>13 DEF TrimEnd
  <2>2. s /= <<>> /\ l > 0
    BY <1>7, <1>11, <2>1
  <2>3. Ink(s, l)
    BY <1>7, <1>13, <2>2 DEF Last, Ink
  <2> QED
    BY <1>7, <1>9, <1>11, <2>1, <2>2, <2>3 DEF Bare
<1> QED
  BY <1>12, <1>13

\* The parts of a quote are such texts.
LEMMA PartsOfBare ==
    ASSUME NEW quote, quote \in Seq(Seq(Chars))
    PROVE  PartsOf(quote) \in Seq(Bare)
BY NormalizedBare, PartsOfIn

\* Parts that are such texts are texts that are not empty.
LEMMA BareIs ==
    ASSUME NEW parts, parts \in Seq(Bare)
    PROVE  /\ parts \in Seq(Seq(Chars) \ {<<>>})
           /\ \A k \in 1..Len(parts) : parts[k] \in Bare
<1>1. PICK A, B : A = Bare /\ B = Seq(Chars) \ {<<>>}
  OBVIOUS
<1>2. A \subseteq B
  BY <1>1 DEF Bare
<1>3. parts \in Seq(A)
  BY <1>1
<1>4. parts \in Seq(B) /\ \A k \in 1..Len(parts) : parts[k] \in A
  BY <1>2, <1>3
<1> QED
  BY <1>1, <1>4

\* What stands in a text can be read there.
LEMMA OccursAt ==
    ASSUME NEW hay \in Seq(Chars), NEW part \in Seq(Chars), NEW i \in Nat, i > 0,
           Occurs(hay, part, i)
    PROVE  \A k \in 1..Len(part) : hay[i + k - 1] = part[k]
<1>1. PICK n \in Nat, l \in Nat : n = Len(hay) /\ l = Len(part)
  OBVIOUS
<1>2. i + l - 1 <= n /\ SubSeq(hay, i, i + l - 1) = part
  BY <1>1 DEF Occurs
<1>3. PICK v : v = SubSeq(hay, i, i + l - 1)
  OBVIOUS
<1>4. \A k \in 1..l : v[k] = hay[i + k - 1]
  BY <1>1, <1>2, <1>3
<1> QED
  BY <1>1, <1>2, <1>3, <1>4

\* The l characters of a text from i on.
LEMMA SliceHas ==
    ASSUME NEW w \in Seq(Chars), NEW i \in Nat, i > 0, NEW l \in Nat,
           i + l - 1 <= Len(w)
    PROVE  /\ SubSeq(w, i, i + l - 1) \in Seq(Chars)
           /\ Len(SubSeq(w, i, i + l - 1)) = l
           /\ \A k \in 1..l : SubSeq(w, i, i + l - 1)[k] = w[i + k - 1]
<1>0. PICK v : v = SubSeq(w, i, i + l - 1)
  OBVIOUS
<1>1. PICK n \in Nat : n = Len(w)
  OBVIOUS
<1>2. v \in Seq(Chars) /\ Len(v) = l /\ \A k \in 1..l : v[k] = w[i + k - 1]
  BY <1>0, <1>1
<1> QED
  BY <1>0, <1>2

\* A part stands where the same characters are.
LEMMA OccursMoves ==
    ASSUME NEW hay \in Seq(Chars), NEW w \in Seq(Chars), NEW part \in Seq(Chars),
           NEW d \in Nat, NEW m \in Nat, m <= Len(w), NEW i \in Nat, i > 0,
           \A k \in 1..m : w[k] = hay[d + k],
           NEW l \in Nat, l = Len(part), i + l - 1 <= m, Occurs(hay, part, d + i)
    PROVE  Occurs(w, part, i)
<1>1. \A k \in 1..l : hay[d + i + k - 1] = part[k]
  BY OccursAt
<1>2. \A k \in 1..l : w[i + k - 1] = part[k]
  <2> SUFFICES ASSUME NEW k \in 1..l PROVE w[i + k - 1] = part[k]
    OBVIOUS
  <2>1. PICK p \in 1..m : p = i + k - 1
    OBVIOUS
  <2>2. w[p] = hay[d + p] /\ d + p = d + i + k - 1
    BY <2>1
  <2> QED
    BY <1>1, <2>1, <2>2
<1>3. PICK n \in Nat : n = Len(w)
  OBVIOUS
<1>4. i + l - 1 <= n
  BY <1>3
<1>5. PICK v : v = SubSeq(w, i, i + l - 1)
  OBVIOUS
<1>6. v \in Seq(Chars) /\ Len(v) = l /\ \A k \in 1..l : v[k] = w[i + k - 1]
  BY <1>3, <1>4, <1>5, SliceHas
<1>7. \A k \in 1..l : v[k] = part[k]
  BY <1>2, <1>6
<1>8. v = part
  BY <1>6, <1>7, SeqEqual
<1> QED
  BY <1>3, <1>4, <1>5, <1>8 DEF Occurs

\* The parts that stand in a text as at says stand in w, d before, up to m.
Moves(w, parts, at, d, m) ==
    \E to \in Placings(w, parts) : to[1] = at[1] - d /\ Reach(parts, to) = m

\* Parts that stand in a text stand in a slice of it that holds them.
LEMMA PlacingMoves ==
    ASSUME NEW hay \in Seq(Chars), NEW w \in Seq(Chars),
           NEW parts, parts \in Seq(Seq(Chars) \ {<<>>}), parts /= <<>>,
           NEW at \in Placings(hay, parts), NEW d \in Nat, d < at[1],
           NEW m \in Nat, d + m = Reach(parts, at), m <= Len(w), GoesOn(hay, d, w, m)
    PROVE  Moves(w, parts, at, d, m)
<1>1. PICK n \in Nat, x \in Nat : n = Len(w) /\ x = Len(parts) /\ x > 0
  BY PartIs
<1>2. PICK len : Apart(hay, parts, at, len)
  BY PlacingIs
<1>3. /\ at \in [1..x -> Nat \ {0}] /\ len \in [1..x -> Nat \ {0}]
      /\ \A k \in 1..x : len[k] = Len(parts[k]) /\ Occurs(hay, parts[k], at[k])
      /\ \A k \in 1..(x - 1) : at[k] + len[k] <= at[k + 1]
      /\ d + m = at[x] + len[x] - 1
  BY <1>1, <1>2 DEF Apart
<1>11. \A k \in 1..x : at[k] \in Nat \ {0} /\ len[k] \in Nat \ {0}
  BY <1>3
<1>12. at[1] \in Nat \ {0}
  <2>1. 1 \in 1..x
    BY <1>1
  <2> QED
    BY <1>11, <2>1
<1>4. \A k \in 1..x : at[1] <= at[k] /\ at[k] + len[k] <= d + m + 1
  BY <1>1, <1>2, PlacingWithin
<1>5. PICK to : to = [k \in 1..x |-> at[k] - d]
  OBVIOUS
<1>6. ASSUME NEW k \in 1..x
      PROVE  /\ to[k] \in 1..n /\ to[k] + d = at[k]
             /\ Occurs(w, parts[k], to[k])
  <2>1. PICK a \in Nat \ {0}, l \in Nat \ {0}, b \in Nat \ {0} :
            a = at[k] /\ l = len[k] /\ b = at[1]
    <3>1. at[k] \in Nat \ {0} /\ len[k] \in Nat \ {0} /\ at[1] \in Nat \ {0}
      BY <1>11, <1>12
    <3> QED
      BY <3>1
  <2>2. b <= a /\ d < b /\ a + l <= d + m + 1
    BY <1>4, <2>1
  <2>3. PICK i \in Nat : i = a - d /\ i > 0 /\ a = d + i
    <3>1. a - d \in Nat /\ a - d > 0 /\ a = d + (a - d)
      BY <2>2
    <3> QED
      BY <3>1
  <2>4. to[k] = i
    BY <1>5, <2>1, <2>3
  <2>5. i + l - 1 <= m /\ m <= n
    BY <1>1, <2>2, <2>3
  <2>6. PICK part \in Seq(Chars) : part = parts[k]
    BY <1>1, PartIs
  <2>7. l = Len(part) /\ Occurs(hay, part, d + i)
    BY <1>3, <2>1, <2>3, <2>6
  <2>8. \A p \in 1..m : w[p] = hay[d + p]
    BY DEF GoesOn
  <2>9. Occurs(w, part, i)
    <3>1. l \in Nat
      OBVIOUS
    <3> QED
      BY <2>3, <2>5, <2>7, <2>8, <3>1, OccursMoves
  <2>10. i \in 1..n
    BY <2>3, <2>5
  <2>11. i + d = at[k]
    BY <2>1, <2>3
  <2> QED
    BY <2>4, <2>6, <2>9, <2>10, <2>11
<1>7. ASSUME NEW k \in 1..x, k < x PROVE to[k] + Len(parts[k]) <= to[k + 1]
  <2>1. k \in 1..(x - 1) /\ k + 1 \in 1..x
    BY <1>7
  <2>2. at[k] + len[k] <= at[k + 1]
    BY <1>3, <2>1
  <2>3. to[k] \in Nat /\ to[k + 1] \in Nat /\ to[k] + d = at[k] /\ to[k + 1] + d = at[k + 1]
    BY <1>6, <2>1, SMTT(40)
  <2>4. PICK l \in Nat : l = len[k] /\ l = Len(parts[k])
    BY <1>3
  <2>5. PICK t \in Nat, u \in Nat : t = to[k] /\ u = to[k + 1]
    BY <2>3
  <2>6. t + d = at[k] /\ u + d = at[k + 1]
    BY <2>3, <2>5
  <2>7. (t + d) + l <= u + d
    BY <2>2, <2>4, <2>6
  <2>8. t + l <= u
    BY <2>7
  <2> QED
    BY <2>4, <2>5, <2>8
<1>8. to \in Placings(w, parts)
  <2>1. to \in [1..x -> 1..n]
    BY <1>5, <1>6
  <2> QED
    BY <1>1, <1>6, <1>7, <2>1 DEF Placings
<1>9. Reach(parts, to) = m
  <2>1. x \in 1..x
    BY <1>1
  <2>2. Reach(parts, to) = to[x] + Len(parts[x]) - 1
    BY <1>1 DEF Reach, Last
  <2>3. PICK l \in Nat : l = len[x] /\ l = Len(parts[x])
    BY <1>3, <2>1
  <2>7. to[x] \in Nat /\ to[x] + d = at[x]
    BY <1>6, <2>1
  <2>4. PICK t \in Nat : t = to[x] /\ t + d = at[x]
    BY <2>7
  <2>5. d + m = (t + d) + l - 1
    BY <1>3, <2>3, <2>4
  <2>6. t + l - 1 = m
    BY <2>5
  <2> QED
    BY <2>2, <2>3, <2>4, <2>6
<1>10. to[1] = at[1] - d
  BY <1>1, <1>5
<1> QED
  BY <1>8, <1>9, <1>10 DEF Moves

\* Parts without spaces at their ends stand between characters that are none.
LEMMA PlacingInk ==
    ASSUME NEW hay \in Seq(Chars), NEW parts, parts \in Seq(Bare), parts /= <<>>,
           NEW at \in Placings(hay, parts)
    PROVE  /\ at[1] \in 1..Len(hay) /\ Reach(parts, at) \in at[1]..Len(hay)
           /\ Ink(hay, at[1]) /\ Ink(hay, Reach(parts, at))
<1>1. parts \in Seq(Seq(Chars) \ {<<>>})
  BY BareIs
<1>2. PICK x \in Nat : x = Len(parts) /\ x > 0
  BY <1>1, PartIs
<1>3. PICK len : Apart(hay, parts, at, len)
  BY <1>1, PlacingIs
<1>4. /\ at \in [1..x -> Nat \ {0}] /\ len \in [1..x -> Nat \ {0}]
      /\ \A k \in 1..x : len[k] = Len(parts[k]) /\ Occurs(hay, parts[k], at[k])
      /\ Reach(parts, at) = at[x] + len[x] - 1
  BY <1>2, <1>3 DEF Apart
<1>5. 1 \in 1..x /\ x \in 1..x
  BY <1>2
<1>6. ASSUME NEW k \in 1..x PROVE Ink(hay, at[k]) /\ Ink(hay, at[k] + len[k] - 1)
  <2>1. PICK part : part = parts[k]
    OBVIOUS
  <2>2. part \in Bare
    BY <1>2, <2>1, BareIs
  <2>3. part \in Seq(Chars) /\ part /= <<>> /\ Ink(part, 1) /\ Ink(part, Len(part))
    BY <2>2 DEF Bare
  <2>4. PICK a \in Nat \ {0}, l \in Nat \ {0} : a = at[k] /\ l = len[k]
    BY <1>4
  <2>5. l = Len(part) /\ Occurs(hay, part, a)
    BY <1>4, <2>1, <2>4
  <2>6. \A q \in 1..l : hay[a + q - 1] = part[q]
    BY <2>3, <2>5, OccursAt
  <2>7. 1 \in 1..l /\ l \in 1..l /\ a + 1 - 1 = a
    OBVIOUS
  <2>8. hay[a] = part[1] /\ hay[a + l - 1] = part[l]
    BY <2>6, <2>7
  <2> QED
    BY <2>3, <2>4, <2>5, <2>8 DEF Ink
<1>7. at[1] \in 1..Len(hay) /\ Reach(parts, at) \in 1..Len(hay)
  BY <1>1, <1>2, <1>3, <1>5, PlacingIn
<1>8. at[1] <= Reach(parts, at)
  <2>1. at[1] <= at[x] /\ at[x] + len[x] <= Reach(parts, at) + 1
    BY <1>1, <1>2, <1>3, <1>5, PlacingWithin
  <2>2. PICK a \in Nat \ {0}, l \in Nat \ {0}, b \in Nat \ {0} :
            a = at[x] /\ l = len[x] /\ b = at[1]
    BY <1>4, <1>5
  <2>3. b <= a /\ Reach(parts, at) = a + l - 1
    BY <1>4, <2>1, <2>2
  <2> QED
    BY <2>2, <2>3
<1>9. Reach(parts, at) \in at[1]..Len(hay)
  BY <1>7, <1>8
<1> QED
  BY <1>4, <1>5, <1>6, <1>7, <1>9

\* The slice between the ends of a placing holds the parts.
LEMMA SliceHolds ==
    ASSUME NEW text \in Seq(Chars), NEW n, n = Normalize(text),
           NEW hay \in Seq(Chars), hay = CharsOf(n), Len(hay) = Len(n),
           NEW parts, parts \in Seq(Bare), parts /= <<>>,
           NEW at \in Placings(hay, parts),
           NEW p, p = n[at[1]].at, NEW q, q = n[Reach(parts, at)].at
    PROVE  Encloses(text, parts, <<p, q>>)
<1>1. PICK f \in Nat, e \in Nat : f = at[1] /\ e = Reach(parts, at) /\ e \in f..Len(n)
                                  /\ f \in 1..Len(n)
  <2>1. at[1] \in 1..Len(hay) /\ Reach(parts, at) \in at[1]..Len(hay)
    BY PlacingInk
  <2> QED
    BY <2>1
<1>2. Ink(hay, f) /\ Ink(hay, e)
  BY <1>1, PlacingInk
<1>3. \A k \in 1..Len(n) : hay[k] = n[k].char
  BY DEF CharsOf
<1>4. PICK norm : PutsOut(text, norm) /\ n = norm[<<1, "none">>]
  BY NormalizeSteps
<1>5. Shows(norm, n, f)
  <2>1. n[f].char /= " "
    BY <1>1, <1>2, <1>3 DEF Ink
  <2> QED
    BY <1>1, <1>4, <2>1 DEF Shows
<1>6. PICK d \in Nat : /\ f - d \in 1..2 /\ (f - d = 2 => text[p] = "fi")
                       /\ Recurs(n, Normalize(SubSeq(text, p, q)), d, e)
                       /\ Len(Normalize(SubSeq(text, p, q))) > e - d =>
                             text[q] = "fi"
  <2>1. p = n[f].at /\ q = n[e].at
    BY <1>1
  <2>2. RecursFrom(text, n, f, e)
    BY <1>1, <1>4, <1>5, SliceRecurs
  <2> QED
    BY <2>1, <2>2, Zenon DEF RecursFrom
<1>22. f - d \in 1..2
  BY <1>6
<1>7. PICK c : c = Normalize(SubSeq(text, p, q))
  OBVIOUS
<1>8. PICK m \in Nat : m = e - d /\ e = d + m /\ m > 0
  <2>1. e - d \in Nat /\ e = d + (e - d) /\ e - d > 0
    <3>1. f <= e
      <4>1. Len(n) \in Nat
        OBVIOUS
      <4> QED
        BY <1>1, <4>1
    <3> QED
      BY <1>22, <3>1
  <2> QED
    BY <2>1
<1>9. /\ c \in Seq(Puts) /\ Len(c) \in m..(m + 1)
      /\ \A k \in 1..m : c[k].char = n[d + k].char
  BY <1>6, <1>7, <1>8 DEF Recurs
<1>10. PICK s \in Seq(Chars) : s = CharsOf(c) /\ Len(s) = Len(c)
  BY <1>9, CharsOfIs
<1>11. \A k \in 1..m : s[k] = hay[d + k]
  <2> SUFFICES ASSUME NEW k \in 1..m PROVE s[k] = hay[d + k]
    OBVIOUS
  <2>1. k \in 1..Len(c)
    BY <1>9
  <2>2. s[k] = c[k].char
    BY <1>10, <2>1 DEF CharsOf
  <2>3. d + k \in 1..Len(n)
    BY <1>1, <1>8
  <2>4. hay[d + k] = n[d + k].char
    BY <1>3, <2>3
  <2> QED
    BY <1>9, <2>2, <2>4
<1>12. Ink(s, m)
  <2>1. m \in 1..m
    BY <1>8
  <2>2. s[m] = hay[e]
    BY <1>8, <1>11, <2>1
  <2> QED
    BY <1>2, <2>2 DEF Ink
<1>13. PICK w : w = Normalized(SubSeq(text, p, q)) /\ w = TrimEnd(s)
  BY <1>7, <1>10 DEF Normalized
<1>14. /\ w \in Seq(Chars) /\ Len(w) \in m..Len(c)
       /\ \A k \in 1..m : w[k] = s[k]
  <2>1. Len(s) \in m..(m + 1)
    BY <1>9, <1>10
  <2>2. /\ TrimEnd(s) \in Seq(Chars) /\ Len(TrimEnd(s)) \in m..Len(s)
        /\ \A k \in 1..m : TrimEnd(s)[k] = s[k]
    BY <1>8, <1>12, <2>1, TrimmedIs
  <2> QED
    BY <1>10, <1>13, <2>2, Zenon
<1>15. GoesOn(hay, d, w, m)
  BY <1>11, <1>14 DEF GoesOn
<1>16. PICK to \in Placings(w, parts) : to[1] = at[1] - d /\ Reach(parts, to) = m
  <2>1. parts \in Seq(Seq(Chars) \ {<<>>})
    BY BareIs
  <2>2. d < at[1] /\ d + m = Reach(parts, at)
    BY <1>1, <1>8, <1>22, SMTT(40)
  <2>3. m <= Len(w)
    BY <1>14
  <2>4. w \in Seq(Chars) /\ GoesOn(hay, d, w, m)
    BY <1>14, <1>15
  <2>5. Moves(w, parts, at, d, m)
    BY <2>1, <2>2, <2>3, <2>4, PlacingMoves
  <2> QED
    BY <2>5 DEF Moves
<1>17. to[1] = 1 \/ (to[1] = 2 /\ text[p] = "fi")
  <2>1. to[1] \in 1..2 /\ (to[1] = 2 => text[p] = "fi")
    BY <1>1, <1>6, <1>16
  <2> QED
    BY <2>1
<1>23. PICK beyond : beyond = Len(w) - Reach(parts, to)
  OBVIOUS
<1>24. beyond = 0 \/ (beyond = 1 /\ text[q] = "fi")
  <2>1. PICK x \in m..(m + 1) : x = Len(w) /\ x <= Len(c)
    BY <1>9, <1>14
  <2>2. beyond = x - m
    BY <1>16, <1>23, <2>1
  <2>3. ASSUME x = m + 1 PROVE text[q] = "fi"
    <3>1. Len(c) > e - d
      BY <1>8, <1>9, <2>1, <2>3
    <3> QED
      BY <1>6, <1>7, <3>1
  <2> QED
    BY <2>1, <2>2, <2>3
<1>18. PICK v : v = <<p, q>>
  OBVIOUS
<1>19. v[1] = p /\ v[2] = q
  BY <1>18
<1>20. w = Normalized(SubSeq(text, v[1], v[2]))
  BY <1>13, <1>19
<1>21. Encloses(text, parts, v)
  BY <1>16, <1>17, <1>19, <1>20, <1>23, <1>24 DEF Encloses
<1> QED
  BY <1>18, <1>21

\* What the parts of a quote add up to.
LEMMA PartsLen ==
    ASSUME NEW parts, parts \in Seq(Seq(Chars) \ {<<>>})
    PROVE  /\ Len(FlattenSeq(parts)) \in Nat
           /\ parts = <<>> => Len(FlattenSeq(parts)) = 0
<1>1. PICK E, B, D : E = Chars /\ B = Seq(E) \ {<<>>} /\ D = Seq(E)
  OBVIOUS
<1>2. parts \in Seq(D)
  <2>1. parts \in Seq(B) /\ B \subseteq D
    BY <1>1
  <2> QED
    BY <2>1
<1>3. PICK h : Joins(h, parts, E)
  <2>1. parts \in Seq(Seq(E))
    BY <1>1, <1>2
  <2> QED
    BY <2>1, FlattenJoins
<1>4. PICK z \in Nat : z = Len(parts)
  BY <1>2
<1>5. FlattenSeq(parts) = h[z] /\ h[z] \in Seq(E) /\ h[0] = <<>>
  BY <1>3, <1>4 DEF Joins
<1>6. parts = <<>> => z = 0
  BY <1>4
<1>7. PICK f : f = FlattenSeq(parts)
  OBVIOUS
<1>8. f \in Seq(E) /\ (z = 0 => f = <<>>)
  BY <1>5, <1>7
<1>9. Len(f) \in Nat /\ (z = 0 => Len(f) = 0)
  BY <1>8
<1> QED
  BY <1>6, <1>7, <1>9

\* m is where the parts are found in text, whose characters are in n.
Exactly(text, n, parts, m) ==
    /\ (m /= <<>>) <=>
          /\ Len(FlattenSeq(parts)) >= MinQuote
          /\ \E at \in Placings(CharsOf(n), parts) : Close(n, parts, at)
    /\ m /= <<>> => Encloses(text, parts, m)

\* find_quote() finds a quote exactly when it is there.
LEMMA FindQuoteExact ==
    ASSUME NEW text \in Seq(Chars), NEW quote, quote \in Seq(Seq(Chars))
    PROVE  Exactly(text, Normalize(text), PartsOf(quote), FindQuote(text, quote))
<1>1. PICK n : n = Normalize(text) /\ Maps(text, n, 1)
  BY NormalizeMaps
<1>2. PICK hay \in Seq(Chars) : hay = CharsOf(n) /\ Len(hay) = Len(n)
  <2>1. n \in Seq(Puts)
    BY <1>1 DEF Maps
  <2> QED
    BY <2>1, CharsOfIs
<1>3. PICK parts : parts = PartsOf(quote)
  OBVIOUS
<1>4. parts \in Seq(Bare) /\ parts \in Seq(Seq(Chars) \ {<<>>})
  <2>1. parts \in Seq(Bare)
    BY <1>3, PartsOfBare
  <2> QED
    BY <2>1, BareIs
<1>5. PICK m : m = FindQuote(text, quote)
  OBVIOUS
<1>6. m = Search(n, hay, parts)
  BY <1>1, <1>2, <1>3, <1>5 DEF FindQuote
<1>7. PICK z \in Nat : z = Len(FlattenSeq(parts)) /\ (parts = <<>> => z = 0)
  BY <1>4, PartsLen
<1>8. MinQuote \in Nat \ {0}
  BY CitingAssumption
<1>9. CASE z < MinQuote
  <2>1. m = <<>>
    BY <1>6, <1>7, <1>9 DEF Search
  <2>2. ~(z >= MinQuote)
    BY <1>8, <1>9
  <2>3. Exactly(text, n, parts, m)
    BY <1>7, <2>1, <2>2 DEF Exactly
  <2> QED
    BY <1>1, <1>3, <1>5, <2>3
<1>10. CASE z >= MinQuote
  <2>1. parts /= <<>>
    BY <1>7, <1>8, <1>10
  <2>2. PICK s : Finds(text, n, parts, s)
    BY <1>1, <1>4, <2>1, SearchSteps
  <2>3. Seeks(n, hay, parts, s) /\ m = s[1]
    <3>1. ~(z < MinQuote)
      BY <1>8, <1>10
    <3> QED
      BY <1>2, <1>6, <1>7, <2>2, <3>1 DEF Finds
  <2>4. Seeking(n, hay, parts, s, 1)
    BY <1>1, <1>2, <1>4, <2>1, <2>3, SearchExact
  <2>5. CASE m = <<>>
    <3>1. \A at : ~StandsFrom(n, hay, parts, 1, at)
      BY <2>3, <2>4, <2>5 DEF Seeking
    <3>2. ASSUME NEW at \in Placings(hay, parts), Close(n, parts, at) PROVE FALSE
      <4>1. 1 <= at[1]
        <5>1. at[1] \in 1..Len(hay)
          BY <1>4, <2>1, PlacingInk
        <5> QED
          BY <5>1
      <4>2. StandsFrom(n, hay, parts, 1, at)
        BY <3>2, <4>1 DEF StandsFrom
      <4> QED
        BY <3>1, <4>2
    <3>3. Exactly(text, n, parts, m)
      BY <1>2, <2>5, <3>2 DEF Exactly
    <3> QED
      BY <1>1, <1>3, <1>5, <3>3
  <2>6. CASE m /= <<>>
    <3>1. PICK at : /\ StandsFrom(n, hay, parts, 1, at)
                    /\ m = <<n[at[1]].at, n[Reach(parts, at)].at>>
      BY <2>3, <2>4, <2>6 DEF Seeking
    <3>2. at \in Placings(hay, parts) /\ Close(n, parts, at)
      BY <3>1 DEF StandsFrom
    <3>3. PICK p, q : p = n[at[1]].at /\ q = n[Reach(parts, at)].at
      OBVIOUS
    <3>4. Encloses(text, parts, <<p, q>>)
      BY <1>1, <1>2, <1>4, <2>1, <3>2, <3>3, SliceHolds
    <3>5. Encloses(text, parts, m)
      BY <3>1, <3>3, <3>4
    <3>6. Exactly(text, n, parts, m)
      BY <1>2, <1>7, <1>10, <2>6, <3>2, <3>5 DEF Exactly
    <3> QED
      BY <1>1, <1>3, <1>5, <3>6
  <2> QED
    BY <2>5, <2>6
<1> QED
  BY <1>7, <1>8, <1>9, <1>10

-----------------------------------------------------------------------------
(* Citations.                                                              *)

(***************************************************************************)
(* The inductive invariant of Citing: what is indexed covers the version,  *)
(* and a citation was made of chunks of it.                                *)
(***************************************************************************)
CitingInv ==
    /\ version \in Seq(Chars)
    /\ spans /= <<>> => Covers(version, spans, 1)
    /\ spans = <<>> => context = {}
    /\ context \subseteq 1..Len(spans)
    /\ context = {} => cited = Nowhere
    /\ OffsetsExact

\* A run is made of chunks of the version, without a gap.
LEMMA RunIs ==
    ASSUME Covers(version, spans, 1), context \subseteq 1..Len(spans),
           NEW r, r \in Runs
    PROVE  /\ r \subseteq context
           /\ Min(r) \in r /\ Max(r) \in r
           /\ \A k \in 1..Len(spans) : Min(r) <= k /\ k <= Max(r) => k \in r
           /\ \A k \in r : Min(r) <= k /\ k <= Max(r)
<1>1. PICK n \in Nat : n = Len(spans)
  BY DEF Covers
<1>2. r \subseteq context /\ r /= {} /\ \A i, j \in r : i..j \subseteq r
  BY DEF Runs
<1>3. r \subseteq 1..n
  BY <1>1, <1>2
<1>4. /\ Min(r) \in r /\ Max(r) \in r
      /\ \A k \in r : Min(r) <= k /\ k <= Max(r)
  BY <1>2, <1>3, Ends
<1>5. PICK a \in 1..n, b \in 1..n : a = Min(r) /\ b = Max(r)
  BY <1>3, <1>4
<1>6. a..b \subseteq r
  BY <1>2, <1>4, <1>5
<1>7. \A k \in 1..n : a <= k /\ k <= b => k \in r
  BY <1>6
<1> QED
  BY <1>1, <1>2, <1>4, <1>5, <1>7

\* What a run spans.
LEMMA RunSpans ==
    ASSUME Covers(version, spans, 1), context \subseteq 1..Len(spans),
           version \in Seq(Chars), NEW r, r \in Runs
    PROVE  \E a, b \in 1..Len(version) :
              /\ a = RunStart(r) /\ b = spans[Max(r)].end /\ a <= b
              /\ \A i \in a..b : ~IsSpace(version[i]) =>
                    \E k \in r : i \in (spans[k].start)..(spans[k].end)
<1>1. PICK n \in Nat, l \in Nat : n = Len(spans) /\ l = Len(version)
  BY DEF Covers
<1>2. PICK p, q : p = Min(r) /\ q = Max(r)
  OBVIOUS
<1>3. /\ p \in r /\ q \in r
      /\ \A k \in 1..n : p <= k /\ k <= q => k \in r
      /\ \A k \in r : p <= k /\ k <= q
      /\ r \subseteq 1..n
  BY <1>1, <1>2, RunIs
<1>4. \A k \in 1..n :
          /\ spans[k].start \in Nat /\ spans[k].end \in Nat
          /\ 1 <= spans[k].start /\ spans[k].start <= spans[k].end
          /\ spans[k].end <= l
  <2>1. \A k \in 1..n : spans[k] \in Chunks
    BY <1>1 DEF Covers
  <2> QED
    BY <1>1, <2>1 DEF Covers, Chunks
<1>5. \A j, k \in 1..n : j < k => spans[j].end < spans[k].start
  BY <1>1 DEF Covers
<1>6. p \in 1..n /\ q \in 1..n /\ p <= q
  BY <1>3
<1>7. PICK a \in 1..l, b \in 1..l : a = spans[p].start /\ b = spans[q].end
  <2>1. \A k \in 1..n : spans[k].start \in 1..l /\ spans[k].end \in 1..l
    <3> SUFFICES ASSUME NEW k \in 1..n
                 PROVE  spans[k].start \in 1..l /\ spans[k].end \in 1..l
      OBVIOUS
    <3>1. PICK x \in Nat, y \in Nat : x = spans[k].start /\ y = spans[k].end
      BY <1>4
    <3>2. 1 <= x /\ x <= y /\ y <= l
      BY <1>4, <3>1
    <3> QED
      BY <3>1, <3>2
  <2> QED
    BY <1>6, <2>1
<1>8. a <= b
  <2>1. CASE p = q
    BY <1>4, <1>6, <1>7, <2>1
  <2>2. CASE p < q
    <3>1. spans[p].end < spans[q].start
      BY <1>5, <1>6, <2>2
    <3> QED
      BY <1>4, <1>6, <1>7, <3>1
  <2> QED
    BY <1>6, <2>1, <2>2
<1>9. ASSUME NEW i \in a..b, ~IsSpace(version[i])
      PROVE  \E k \in r : i \in (spans[k].start)..(spans[k].end)
  <2>1. i \in 1..l
    OBVIOUS
  <2>2. PICK k \in 1..n : i \in (spans[k].start)..(spans[k].end)
    BY <1>1, <1>9, <2>1 DEF Covers
  <2>3. spans[k].start <= i /\ i <= spans[k].end
    BY <2>2
  <2>4. p <= k
    <3> SUFFICES ASSUME k < p PROVE FALSE
      BY <1>6
    <3>1. spans[k].end < spans[p].start
      BY <1>5, <1>6
    <3> QED
      BY <1>4, <1>6, <1>7, <2>3, <3>1
  <2>5. k <= q
    <3> SUFFICES ASSUME q < k PROVE FALSE
      BY <1>6
    <3>1. spans[q].end < spans[k].start
      BY <1>5, <1>6
    <3> QED
      BY <1>4, <1>6, <1>7, <2>3, <3>1
  <2> QED
    BY <1>3, <2>2, <2>4, <2>5
<1>10. a = RunStart(r) /\ b = spans[Max(r)].end
  BY <1>2, <1>7 DEF RunStart
<1> QED
  BY <1>1, <1>8, <1>9, <1>10

\* The text of a run is the version where a chunk is, and blank elsewhere.
LEMMA RunTextIs ==
    ASSUME Covers(version, spans, 1), context \subseteq 1..Len(spans),
           version \in Seq(Chars), NEW r, r \in Runs
    PROVE  \E a, b \in 1..Len(version) :
              /\ a = RunStart(r) /\ a <= b
              /\ \A i \in a..b : ~IsSpace(version[i]) =>
                    \E k \in r : i \in (spans[k].start)..(spans[k].end)
              /\ RunText(r) \in Seq(Chars) /\ Len(RunText(r)) = b - a + 1
              /\ \A i \in 1..(b - a + 1) :
                    RunText(r)[i] =
                       IF \E k \in r : a + i - 1 \in (spans[k].start)..(spans[k].end)
                       THEN version[a + i - 1] ELSE " "
<1>0. PICK a \in 1..Len(version), b \in 1..Len(version) :
              /\ a = RunStart(r) /\ b = spans[Max(r)].end /\ a <= b
              /\ \A i \in a..b : ~IsSpace(version[i]) =>
                    \E k \in r : i \in (spans[k].start)..(spans[k].end)
  BY RunSpans
<1>1. PICK l \in Nat : l = Len(version) /\ \A i \in 1..l : version[i] \in Chars
  OBVIOUS
<1>2. PICK m \in Nat : m = b - a + 1
  <2>1. b - a + 1 \in Nat
    BY <1>0, <1>1
  <2> QED
    BY <2>1
<1> DEFINE At(i) == IF \E k \in r : a + i - 1 \in (spans[k].start)..(spans[k].end)
                    THEN version[a + i - 1] ELSE " "
<1>3. PICK s : s = [i \in 1..m |-> At(i)]
  OBVIOUS
<1>4. RunText(r) = s
  BY <1>0, <1>2, <1>3 DEF RunText
<1>5. \A i \in 1..m : At(i) \in Chars
  <2> SUFFICES ASSUME NEW i \in 1..m PROVE At(i) \in Chars
    OBVIOUS
  <2>1. a + i - 1 \in 1..l
    BY <1>0, <1>1, <1>2, SMTT(40)
  <2>2. version[a + i - 1] \in Chars /\ " " \in Chars
    BY <1>1, <2>1 DEF Chars
  <2> QED
    BY <2>2
<1> HIDE DEF At
<1>6. s \in [1..m -> Chars] /\ \A i \in 1..m : s[i] = At(i)
  BY <1>3, <1>5
<1>7. s \in Seq(Chars) /\ Len(s) = m
  BY <1>6, FunctionIsSeq
<1>8. \A i \in 1..m :
          RunText(r)[i] =
              IF \E k \in r : a + i - 1 \in (spans[k].start)..(spans[k].end)
              THEN version[a + i - 1] ELSE " "
  BY <1>4, <1>6 DEF At
<1>9. RunText(r) \in Seq(Chars) /\ Len(RunText(r)) = b - a + 1
  BY <1>2, <1>4, <1>7
<1> QED
  BY <1>0, <1>2, <1>8, <1>9, ZenonT(40)

\* The citation of what is at p to q in the text of run r.
CitationOf(r, p, q) == [start |-> RunStart(r) + p - 1,
                        end |-> RunStart(r) + q - 1,
                        quote |-> SubSeq(RunText(r), p, q)]

\* What OffsetsExact says of a citation.
Indexes(c) ==
    /\ Len(c.quote) = c.end - c.start + 1
    /\ \A i \in (c.start)..(c.end) :
          \/ version[i] = c.quote[i - c.start + 1]
          \/ IsSpace(version[i]) /\ IsSpace(c.quote[i - c.start + 1])
    /\ \A i \in (c.start)..(c.end) : ~IsSpace(version[i]) =>
          \E k \in context : i \in (spans[k].start)..(spans[k].end)

\* Offsets in the text of a run, as offsets in the version.
LEMMA SpanExact ==
    ASSUME Covers(version, spans, 1), context \subseteq 1..Len(spans),
           version \in Seq(Chars), NEW r, r \in Runs,
           NEW p \in 1..Len(RunText(r)), NEW q \in 1..Len(RunText(r)), p <= q
    PROVE  Indexes(CitationOf(r, p, q))
<1>0. PICK c : c = CitationOf(r, p, q)
  OBVIOUS
<1>1. PICK a \in 1..Len(version), b \in 1..Len(version) :
              /\ a = RunStart(r) /\ a <= b
              /\ \A i \in a..b : ~IsSpace(version[i]) =>
                    \E k \in r : i \in (spans[k].start)..(spans[k].end)
              /\ RunText(r) \in Seq(Chars) /\ Len(RunText(r)) = b - a + 1
              /\ \A i \in 1..(b - a + 1) :
                    RunText(r)[i] =
                       IF \E k \in r : a + i - 1 \in (spans[k].start)..(spans[k].end)
                       THEN version[a + i - 1] ELSE " "
  BY RunTextIs
<1>2. PICK l \in Nat : l = Len(version)
  OBVIOUS
<1>3. PICK t \in Seq(Chars), m \in Nat : t = RunText(r) /\ m = Len(t) /\ m = b - a + 1
  <2>1. PICK t \in Seq(Chars) : t = RunText(r)
    BY <1>1
  <2>2. Len(t) \in Nat
    BY <2>1
  <2>3. Len(t) = b - a + 1
    BY <1>1, <2>1
  <2> QED
    BY <2>1, <2>2, <2>3
<1>4. \A i \in 1..m :
          t[i] = IF \E k \in r : a + i - 1 \in (spans[k].start)..(spans[k].end)
                 THEN version[a + i - 1] ELSE " "
  BY <1>1, <1>3
<1>5. p \in 1..m /\ q \in 1..m
  BY <1>3
<1>6. PICK s : s = SubSeq(t, p, q)
  OBVIOUS
<1>7. Len(s) = q - p + 1 /\ \A j \in 1..(q - p + 1) : s[j] = t[p + j - 1]
  BY <1>3, <1>5, <1>6
<1>8. PICK x \in Nat, y \in Nat : x = a + p - 1 /\ y = a + q - 1
  <2>1. a + p - 1 \in Nat /\ a + q - 1 \in Nat
    BY <1>2, <1>5
  <2> QED
    BY <2>1
<1>9. c.start = x /\ c.end = y /\ c.quote = s
  BY <1>0, <1>1, <1>3, <1>6, <1>8 DEF CitationOf
<1>10. Len(s) = y - x + 1
  BY <1>2, <1>5, <1>7, <1>8, SMTT(40)
<1>11. ASSUME NEW i \in x..y
       PROVE  /\ version[i] = s[i - x + 1] \/ (IsSpace(version[i]) /\ IsSpace(s[i - x + 1]))
              /\ ~IsSpace(version[i]) =>
                    \E k \in context : i \in (spans[k].start)..(spans[k].end)
  <2>1. PICK j \in 1..(q - p + 1) : j = i - x + 1
    <3>1. i - x + 1 \in 1..(q - p + 1)
      BY <1>2, <1>5, <1>8
    <3> QED
      BY <3>1
  <2>2. PICK k \in 1..m : k = p + j - 1
    <3>1. p + j - 1 \in 1..m
      BY <1>5
    <3> QED
      BY <3>1
  <2>3. a + k - 1 = i /\ i \in a..b
    BY <1>2, <1>3, <1>5, <1>8, <2>1, <2>2
  <2>4. s[i - x + 1] = t[k]
    BY <1>7, <2>1, <2>2
  <2>5. t[k] = IF \E d \in r : i \in (spans[d].start)..(spans[d].end)
               THEN version[i] ELSE " "
    BY <1>4, <2>3
  <2>6. ~IsSpace(version[i]) => \E d \in r : i \in (spans[d].start)..(spans[d].end)
    BY <1>1, <2>3
  <2>7. IsSpace(" ")
    BY DEF IsSpace
  <2>8. r \subseteq context
    BY RunIs
  <2> QED
    BY <2>4, <2>5, <2>6, <2>7, <2>8
<1>12. Indexes(c)
  BY <1>9, <1>10, <1>11 DEF Indexes
<1> QED
  BY <1>0, <1>12

\* Of the runs a quote is found in, there is one that is preferred.
LEMMA PreferIs ==
    ASSUME Covers(version, spans, 1), context \subseteq 1..Len(spans),
           NEW quote, Hits(quote) /= {}, NEW named
    PROVE  Prefer(Hits(quote), named) \in Hits(quote)
<1>1. PICK hits : hits = Hits(quote)
  OBVIOUS
<1>2. PICK n \in Nat : n = Len(spans)
  BY DEF Covers
<1>3. \A h \in hits : Min(h.run) \in 1..n
  <2> SUFFICES ASSUME NEW h \in hits PROVE Min(h.run) \in 1..n
    OBVIOUS
  <2>1. h.run \in Runs
    BY <1>1 DEF Hits
  <2>2. Min(h.run) \in context
    BY <2>1, RunIs
  <2> QED
    BY <1>2, <2>2
<1>4. PICK s : s = {Min(h.run) : h \in hits}
  OBVIOUS
<1>5. s \subseteq 1..n /\ s /= {}
  BY <1>1, <1>3, <1>4
<1>6. Min(s) \in s /\ \A y \in s : Min(s) <= y
  BY <1>5, Ends
<1>7. PICK h \in hits : \A o \in hits : Min(h.run) <= Min(o.run)
  BY <1>4, <1>6
<1> DEFINE Best(d) == \/ named \in d.run
                      \/ \A o \in hits : /\ named \notin o.run
                                         /\ Min(d.run) <= Min(o.run)
<1>8. \E d \in hits : Best(d)
  BY <1>7
<1>9. Prefer(hits, named) = CHOOSE d \in hits : Best(d)
  BY DEF Prefer
<1> HIDE DEF Best
<1>10. Prefer(hits, named) \in hits
  BY <1>8, <1>9, Zenon
<1> QED
  BY <1>1, <1>10

\* Init ...
LEMMA CitingInitInv == CitingInit => CitingInv
<1> SUFFICES ASSUME CitingInit PROVE CitingInv
  OBVIOUS
<1>1. version \in Seq(Chars)
  BY CitingAssumption DEF CitingInit
<1>2. spans = <<>> /\ context = {} /\ cited = Nowhere
  BY DEF CitingInit
<1> QED
  BY <1>1, <1>2 DEF CitingInv, OffsetsExact

\* Indexing writes the chunks of the version.
LEMMA IndexKeeps == CitingInv /\ Index => CitingInv'
<1> SUFFICES ASSUME CitingInv, Index PROVE CitingInv'
  OBVIOUS
<1>1. version \in Seq(Chars) /\ context = {} /\ cited = Nowhere
  BY DEF CitingInv, Index
<1>2. spans' = ChunkText(version) /\ ChunkText(version) /= <<>>
      /\ version' = version /\ context' = context /\ cited' = cited
  BY DEF Index
<1>3. Len(version) \in Nat
  BY <1>1
<1>4. Covers(version, ChunkText(version), 1)
  BY <1>3, ChunkTextCovers
<1>5. Covers(version, spans, 1)'
  BY <1>2, <1>4 DEF Covers
<1>6. OffsetsExact'
  BY <1>1, <1>2 DEF OffsetsExact
<1> QED
  BY <1>1, <1>2, <1>5, <1>6 DEF CitingInv

\* The chunks given to the model are chunks of the version.
LEMMA SelectKeeps == CitingInv /\ Select => CitingInv'
<1> SUFFICES ASSUME CitingInv, Select PROVE CitingInv'
  OBVIOUS
<1>1. /\ context' \subseteq 1..Len(spans) /\ context' /= {}
      /\ version' = version /\ spans' = spans /\ cited' = cited
      /\ context = {}
  BY DEF Select
<1>2. cited = Nowhere /\ cited' = Nowhere
  BY <1>1 DEF CitingInv
<1>3. spans /= <<>>
  <2> SUFFICES ASSUME spans = <<>> PROVE FALSE
    OBVIOUS
  <2>1. 1..Len(spans) = {}
    OBVIOUS
  <2> QED
    BY <1>1, <2>1
<1>4. Covers(version, spans, 1)'
  BY <1>1, <1>3 DEF CitingInv, Covers
<1>5. OffsetsExact'
  BY <1>2 DEF OffsetsExact, Nowhere
<1> QED
  BY <1>1, <1>2, <1>3, <1>4, <1>5 DEF CitingInv, Nowhere

\* A citation is made of a run.
LEMMA CiteKeeps ==
    ASSUME NEW named, NEW quote \in Quotes
    PROVE  CitingInv /\ Cite(named, quote) => CitingInv'
<1> SUFFICES ASSUME CitingInv, Cite(named, quote) PROVE CitingInv'
  OBVIOUS
<1>1. /\ context /= {} /\ cited' = ResolveQuote(named, quote) /\ cited' /= Nowhere
      /\ version' = version /\ spans' = spans /\ context' = context
  BY DEF Cite
<1>2. /\ version \in Seq(Chars) /\ context \subseteq 1..Len(spans)
      /\ spans /= <<>> /\ Covers(version, spans, 1)
  BY <1>1 DEF CitingInv
<1>3. Hits(quote) /= {}
  BY <1>1 DEF ResolveQuote
<1>4. PICK h \in Hits(quote) : h = Prefer(Hits(quote), named)
  BY <1>2, <1>3, PreferIs
<1>5. cited' = [start |-> RunStart(h.run) + h.at[1] - 1,
                end |-> RunStart(h.run) + h.at[2] - 1,
                quote |-> SubSeq(h.text, h.at[1], h.at[2])]
  BY <1>1, <1>4 DEF ResolveQuote
<1>6. PICK r \in Runs : h.run = r /\ h.text = RunText(r)
                        /\ h.at = FindQuote(RunText(r), quote) /\ h.at /= <<>>
  BY DEF Hits
<1>7. RunText(r) \in Seq(Chars)
  BY <1>2, RunTextIs
<1>8. PICK t \in Seq(Chars) : t = RunText(r)
  BY <1>7
<1>9. quote \in Seq(Seq(Chars))
  BY CitingAssumption
<1>10. FindQuote(t, quote) \in Matches(Len(t))
  BY <1>9, FindQuoteIs
<1>11. PICK p \in 1..Len(t), q \in 1..Len(t) : h.at = <<p, q>> /\ p <= q
  BY <1>6, <1>8, <1>10 DEF Matches
<1>12. PICK c : c = cited'
  OBVIOUS
<1>13. c = CitationOf(r, p, q)
  <2>1. h.at[1] = p /\ h.at[2] = q
    BY <1>11
  <2> QED
    BY <1>5, <1>6, <1>12, <2>1 DEF CitationOf
<1>14. Indexes(c)
  <2>1. p \in 1..Len(RunText(r)) /\ q \in 1..Len(RunText(r)) /\ p <= q
    BY <1>8, <1>11
  <2>2. Indexes(CitationOf(r, p, q))
    BY <1>2, <2>1, SpanExact
  <2> QED
    BY <1>13, <2>2
<1>15. OffsetsExact'
  BY <1>1, <1>12, <1>14 DEF OffsetsExact, Indexes, IsSpace
<1>16. Covers(version, spans, 1)'
  BY <1>1, <1>2 DEF Covers
<1> QED
  BY <1>1, <1>2, <1>15, <1>16 DEF CitingInv, Nowhere

\* CitingInv is inductive.
LEMMA CitingInvariance == CitingSpec => []CitingInv
<1>1. CitingInit => CitingInv
  BY CitingInitInv
<1>2. CitingInv /\ [CitingNext]_citingVars => CitingInv'
  <2> SUFFICES ASSUME CitingInv, [CitingNext]_citingVars PROVE CitingInv'
    OBVIOUS
  <2>1. CASE Index
    BY <2>1, IndexKeeps
  <2>2. CASE Select
    BY <2>2, SelectKeeps
  <2>3. ASSUME NEW k \in 1..(Len(spans) + 1), NEW q \in Quotes, Cite(k, q)
        PROVE  CitingInv'
    BY <2>3, CiteKeeps
  <2>4. CASE UNCHANGED citingVars
    BY <2>4 DEF CitingInv, citingVars, OffsetsExact, Covers, Nowhere, IsSpace
  <2> QED
    BY <2>1, <2>2, <2>3, <2>4 DEF CitingNext
<1> QED
  BY <1>1, <1>2, PTL DEF CitingSpec

(***************************************************************************)
(* The chunks chunk_text() stores leave no character out of the index but  *)
(* spaces, do not overlap and are not too long, for every text.            *)
(***************************************************************************)
THEOREM ChunksCoverHolds == CitingSpec => []ChunksCover
<1>1. CitingInv => ChunksCover
  <2> SUFFICES ASSUME CitingInv, spans /= <<>> PROVE ChunksCover
    BY DEF ChunksCover
  <2>1. Covers(version, spans, 1)
    BY DEF CitingInv
  <2>2. PICK n \in Nat : n = Len(spans)
    BY <2>1 DEF Covers
  <2>3. \A k \in 1..n :
            /\ spans[k].start <= spans[k].end
            /\ spans[k].end - spans[k].start < Target
            /\ ~IsSpace(version[spans[k].start])
            /\ ~IsSpace(version[spans[k].end])
    BY <2>1, <2>2 DEF Covers
  <2>4. \A k \in 1..n : k < n => spans[k].end < spans[k + 1].start
    <3> SUFFICES ASSUME NEW k \in 1..n, k < n
                 PROVE  spans[k].end < spans[k + 1].start
      OBVIOUS
    <3>1. k + 1 \in 1..n /\ k < k + 1
      OBVIOUS
    <3> QED
      BY <2>1, <2>2, <3>1 DEF Covers
  <2>5. \A i \in 1..Len(version) : ~IsSpace(version[i]) =>
            \E k \in 1..n : i \in (spans[k].start)..(spans[k].end)
    BY <2>1, <2>2 DEF Covers
  <2> QED
    BY <2>2, <2>3, <2>4, <2>5 DEF ChunksCover
<1> QED
  BY <1>1, CitingInvariance, PTL

(***************************************************************************)
(* The offsets CitationResolver.resolve() returns index the text of the    *)
(* version, whatever the text, the chunks in the context and the quote.    *)
(***************************************************************************)
THEOREM OffsetsExactHolds == CitingSpec => []OffsetsExact
<1>1. CitingInv => OffsetsExact
  BY DEF CitingInv
<1> QED
  BY <1>1, CitingInvariance, PTL

(***************************************************************************)
(* A quote of the model is found in a version exactly when its parts are   *)
(* in it, and what find_quote() returns encloses them: with the two        *)
(* theorems above, all that citations rest on.                             *)
(***************************************************************************)
THEOREM CitationsExactHolds == CitingSpec => []CitationsExact
<1>1. CitingInv => QuotesExact
  <2> SUFFICES ASSUME CitingInv PROVE QuotesExact
    OBVIOUS
  <2>1. version \in Seq(Chars)
    BY DEF CitingInv
  <2>2. ASSUME NEW quote \in Quotes
        PROVE  Exactly(version, Normalize(version), PartsOf(quote),
                       FindQuote(version, quote))
    <3>1. quote \in Seq(Seq(Chars))
      BY CitingAssumption
    <3> QED
      BY <2>1, <3>1, FindQuoteExact
  <2> QED
    BY <2>2 DEF QuotesExact, Exactly
<1>2. CitingSpec => []QuotesExact
  BY <1>1, CitingInvariance, PTL
<1>3. CitationsExact <=> ChunksCover /\ QuotesExact /\ OffsetsExact
  BY DEF CitationsExact
<1> QED
  BY <1>2, <1>3, ChunksCoverHolds, OffsetsExactHolds, PTL

=============================================================================
