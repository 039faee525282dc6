------------------------------ MODULE Replying ------------------------------
(***************************************************************************)
(* How one billed run asks the model and what it makes of the replies: the *)
(* failover over keys and proxies (domain/llm.py), the verified claims and *)
(* the numbered citations of an answer, the parts, the theses and the      *)
(* coverage of a summary (domain/provider.py, domain/citations.py), the    *)
(* price a summary was shown for (domain/summaries.py) and the price of    *)
(* the run (domain/pricing.py).                                            *)
(*                                                                         *)
(* The sources of a summary are numbered in the order of their creation.   *)
(* What the model sends is any member of small sets.  A citation is either *)
(* found in the context, and then an element of Idents (version, start and *)
(* end), or Unfound (Citing shows how it is found).                        *)
(***************************************************************************)
EXTENDS Integers, FiniteSets, Sequences, SequencesExt, FiniteSetsExt

CONSTANTS Idents, Unfound,
          RawCitations,  \* sequences of citations a claim may come with
          KeyCount, ProxyCount,
          Shelves,       \* topics: each source's chunk sizes, by creation
          SinglePass, PartChars, MaxBatches,
          MaxCited,      \* MAX_CITATIONS_PER_CLAIM
          SummaryCredits, ExtraCredits, MaxCredits

ASSUME ReplyingAssumption ==
    /\ Unfound \notin Idents
    /\ {KeyCount, ProxyCount, PartChars, MaxBatches, MaxCited}
           \subseteq Nat \ {0}
    /\ {SinglePass, SummaryCredits, ExtraCredits, MaxCredits} \subseteq Nat
    /\ Shelves \subseteq Seq(Seq(Nat \ {0}) \ {<<>>}) \ {<<>>}
    /\ RawCitations \subseteq Seq(Idents \cup {Unfound})

VARIABLES client,  \* index into the clients, key by key
          tried,   \* history: how each client answered, in order
          task,    \* the call under way; "support" and "reduce" come second
          shelf,   \* the ready sources of the topic of a summary
          asked,   \* Selection.version_ids: its sources, in their order
          shown,   \* history: the credits summary_quote() returned for them
          allowed, \* those of them that allowed_versions() finds for the run
          lengths, \* the chunks of the run
          theses,  \* verified claims so far, one sequence for each reply
          conflicts,
          dropped, \* stats.dropped_claims; proposed: stats.proposed_claims
          proposed,
          reply    \* what generate() returns

summaryVars == <<shelf, asked, shown, allowed, lengths>>
replyingVars == <<client, tried, task, summaryVars, theses, conflicts, dropped,
                  proposed, reply>>

NoReply == [blocks |-> <<>>, table |-> <<>>, units |-> 0, covered |-> 0]

-----------------------------------------------------------------------------
(* plan_summary_parts.                                                     *)

SumSeq(s) == FoldLeft(+, 0, s)
PartSize(sizes, part) == SumSeq([k \in 1..Len(part) |-> sizes[part[k]]])

\* Variant: a part may exceed its size by the chunk that closes it.
PlanLate(sizes) ==
    LET step(parts, i) ==
          IF PartSize(sizes, Last(parts)) > PartChars
            THEN Append(parts, <<i>>)
            ELSE Append(Front(parts), Append(Last(parts), i))
    IN IF SumSeq(sizes) <= SinglePass
         THEN IF sizes = <<>> THEN <<>> ELSE <<[i \in 1..Len(sizes) |-> i]>>
       ELSE FoldLeft(step, <<<<>>>>, [i \in 1..Len(sizes) |-> i])

\* plan_summary_parts(): sequences of chunk numbers; a full part is closed.
Plan(sizes) ==
    LET step(parts, i) ==
          IF /\ Last(parts) /= <<>>
             /\ PartSize(sizes, Last(parts)) + sizes[i] > PartChars
            THEN Append(parts, <<i>>)
            ELSE Append(Front(parts), Append(Last(parts), i))
    IN IF SumSeq(sizes) <= SinglePass
         THEN IF sizes = <<>> THEN <<>> ELSE <<[i \in 1..Len(sizes) |-> i]>>
       ELSE FoldLeft(step, <<<<>>>>, [i \in 1..Len(sizes) |-> i])

AtMost(n, m) == IF n < m THEN n ELSE m
PartsOfChunks(sizes) == AtMost(Len(Plan(sizes)), MaxBatches)
Parts == PartsOfChunks(lengths)

-----------------------------------------------------------------------------
(* OpenAILLMClient.complete_json.                                          *)

Clients == KeyCount * ProxyCount
KeyOf(i) == i \div ProxyCount

\* Variant: a refused key goes on to the next proxy.
NextClient(i) == i + 1

NextKey(i) == (i \div ProxyCount + 1) * ProxyCount

\* The answer of a client, and the index the loop goes on with; -1 when the
\* call ends.
After(i, outcome) ==
    CASE outcome = "connection"        -> i + 1
      [] outcome \in {"auth", "quota"} -> NextKey(i)
      [] outcome \in {"rate", "bad"}   -> -1

\* Whether the next step of the run is a call.
Calling == \/ task = "answer"
           \/ task = "support" /\ theses[1] \o conflicts /= <<>>
           \/ task = "map" /\ (Len(theses) < Parts \/ Parts > 1)

\* A client fails; a call begins with the first, and a failed one ends the
\* run.
CallFails(outcome) ==
    LET next == After(client, outcome) IN
    /\ Calling
    /\ tried' = Append(tried, <<client, outcome>>)
    /\ client' = IF next = -1 THEN client ELSE next
    /\ task' = IF next = -1 \/ next >= Clients THEN "failed" ELSE task
    /\ UNCHANGED <<summaryVars, theses, conflicts, dropped, proposed, reply>>

\* The call that succeeds; the next one starts over.
Answered(t) == /\ task' = t
               /\ client' = 0
               /\ tried' = <<>>
               /\ UNCHANGED summaryVars

-----------------------------------------------------------------------------
(* verify_claims and CitationTable.                                        *)

\* The members of s that are in S, in order.
Only(s, S) ==
    FoldLeft(LAMBDA kept, c : IF c \in S THEN Append(kept, c) ELSE kept,
             <<>>, s)

\* The citations kept for a claim: found, each once, at most MaxCited.
Kept(raw) ==
    LET step(kept, c) ==
          IF c = Unfound \/ c \in ToSet(kept) \/ Len(kept) >= MaxCited
            THEN kept ELSE Append(kept, c)
    IN FoldLeft(step, <<>>, raw)

Cited(claims) == Only(claims, {c \in ToSet(claims) : c.cites /= <<>>})

\* Claims that keep a citation.  One without a text is dropped as well, and
\* counts as one without citations here.
VerifyClaims(claims) ==
    Cited([i \in 1..Len(claims) |-> [claims[i] EXCEPT !.cites = Kept(@)]])

\* table.add() of every citation of a block, in order.
AddAll(table, cites) ==
    FoldLeft(LAMBDA t, c : IF c \in ToSet(t) THEN t ELSE Append(t, c),
             table, cites)

\* Blocks over a table of distinct citations; a claim refers to its own by
\* number.
Numbered(claims) ==
    LET table == AddAll(<<>>, FlattenSeq([i \in 1..Len(claims) |->
                                             claims[i].cites]))
        Number(c) == CHOOSE n \in 1..Len(table) : table[n] = c
    IN [table |-> table,
        blocks |-> [i \in 1..Len(claims) |->
            [of |-> claims[i].of, conflict |-> claims[i].conflict,
             cites |-> [k \in 1..Len(claims[i].cites) |->
                            Number(claims[i].cites[k])]]]]

\* Sides that are claims like any other.
Plain(sides) == [i \in 1..Len(sides) |-> [sides[i] EXCEPT !.conflict = FALSE]]

\* Claims the model may send: of names them, one name each.
RawClaims(of, conflict) ==
    {[of |-> {of}, conflict |-> conflict, cites |-> r] : r \in RawCitations}

-----------------------------------------------------------------------------
(* SourcesProvider._answer.                                                *)

\* The model answers: a claim or none, and up to two positions of a conflict.
\* A conflict with fewer than two verified positions is no conflict.
ReceiveAnswer ==
    /\ task = "answer"
    /\ \E n \in 0..1, m \in 0..2, claim \in RawClaims("c", FALSE),
          p \in RawClaims("p", TRUE), q \in RawClaims("q", TRUE) :
          LET claims == VerifyClaims(SubSeq(<<claim>>, 1, n))
              sides == VerifyClaims(SubSeq(<<p, q>>, 1, m)) IN
          /\ theses' = <<IF Len(sides) >= 2 THEN claims
                         ELSE claims \o Plain(sides)>>
          /\ conflicts' = IF Len(sides) >= 2 THEN sides ELSE <<>>
          /\ proposed' = n + m
          /\ dropped' = n + m - Len(claims) - Len(sides)
    /\ Answered("support")
    /\ UNCHANGED reply

\* The claims made of nothing but names.
Among(claims, names) ==
    Only(claims, {c \in ToSet(claims) : c.of \subseteq names})

\* Variant: a conflict that lost a side is still reported as one.
FilterKeepsConflict(supported) ==
    Among(theses[1], supported) \o Among(conflicts, supported)

\* What is left after the second pass; a conflict with one side left becomes
\* a claim.
FilterSupported(supported) ==
    LET sides == Among(conflicts, supported) IN
    Among(theses[1], supported) \o
        (IF Len(sides) >= 2 THEN sides ELSE Plain(sides))

\* The support check rules on each of the claims; one it does not mention
\* is dropped.  Nothing to check is not sent.  Without the check
\* (support_check) all claims are kept, which is one of its outcomes.
CheckSupport ==
    /\ task = "support"
    /\ \E supported \in SUBSET {"c", "p", "q"} :
          LET left == FilterSupported(supported)
              flat == theses[1] \o conflicts IN
          /\ flat = <<>> => supported = {}
          /\ dropped' = dropped + Len(flat) - Len(left)
          /\ theses' = <<left>>
          /\ reply' = [NoReply EXCEPT !.units = 1,
                         !.blocks = Numbered(left).blocks,
                         !.table = Numbered(left).table]
    /\ conflicts' = <<>>
    /\ Answered("done")
    /\ UNCHANGED proposed

-----------------------------------------------------------------------------
(* Summaries: _summary and the price.                                      *)

\* summary_price(), for one part at least.
SummaryPrice(parts) ==
    LET n == IF parts < 1 THEN 1 ELSE parts IN
    AtMost(SummaryCredits + (n - 1) * ExtraCredits, MaxCredits)

\* The chunks of sources, source after source.
ChunksOf(order) == FlattenSeq([k \in 1..Len(order) |-> shelf[order[k]]])

\* The order of Source.created_at.
ByCreation(sources) == Only([i \in 1..Len(shelf) |-> i], sources)

\* summary_quote(), for the price view, a new summary or a retry: the sources
\* asked for, in the order of the request.  A request that names none gets the
\* selected ones by creation.
ShowPrice ==
    /\ task = "ask"
    /\ \E n \in 1..Len(shelf) : asked' \in Injection(1..n, 1..Len(shelf))
    /\ shown' = SummaryPrice(PartsOfChunks(ChunksOf(asked')))
    /\ task' = "wait"
    /\ UNCHANGED <<client, tried, shelf, allowed, lengths, theses, conflicts,
                   dropped, proposed, reply>>

\* build_context(): by then a source may be deleted or left out; without any
\* the run ends before it asks (module Reading).
BuildContext ==
    /\ task = "wait"
    /\ \E usable \in (SUBSET ToSet(asked)) \ {{}} : allowed' = usable
    /\ lengths' = ChunksOf(ByCreation(allowed'))
    /\ task' = "map"
    /\ UNCHANGED <<client, tried, shelf, asked, shown, theses, conflicts,
                   dropped, proposed, reply>>

\* Characters of the parts that are read.
Read == UNION {ToSet(Plan(lengths)[i]) : i \in 1..Parts}
Covered == SumSeq([i \in 1..Len(lengths) |->
                      IF i \in Read THEN lengths[i] ELSE 0])

\* One part is read: a thesis or none.
ReadPart ==
    /\ task = "map"
    /\ Len(theses) < Parts
    /\ \E n \in 0..1, t \in RawClaims(Len(theses), FALSE) :
          LET kept == VerifyClaims(SubSeq(<<t>>, 1, n)) IN
          /\ theses' = Append(theses, kept)
          /\ proposed' = proposed + n
          /\ dropped' = dropped + n - Len(kept)
    /\ Answered("map")
    /\ UNCHANGED <<conflicts, reply>>

\* Variant: the units are the parts planned, not the parts read.
SummaryOfPlanned(claims) ==
    LET numbered == Numbered(claims) IN
    [table |-> numbered.table, units |-> Len(Plan(lengths)),
     covered |-> Covered,
     blocks |-> [i \in 1..Len(claims) |->
        [numbered.blocks[i] EXCEPT !.cites =
            SubSeq(@, 1, AtMost(MaxCited, Len(@)))]]]

\* The table holds all citations of a thesis, the thesis the first of them.
SummaryOf(claims) ==
    LET numbered == Numbered(claims) IN
    [table |-> numbered.table, units |-> Parts, covered |-> Covered,
     blocks |-> [i \in 1..Len(claims) |->
        [numbered.blocks[i] EXCEPT !.cites =
            SubSeq(@, 1, AtMost(MaxCited, Len(@)))]]]

\* A single part is the summary.
OnePart ==
    /\ task = "map" /\ Len(theses) = Parts /\ Parts = 1
    /\ reply' = SummaryOf(theses[1])
    /\ Answered("done")
    /\ UNCHANGED <<theses, conflicts, dropped, proposed>>

\* A merged thesis takes over the citations of the theses it names, those
\* that do not exist left out.
Merged(refs) ==
    LET based == Among(FlattenSeq(theses), refs) IN
    [of |-> UNION {based[i].of : i \in 1..Len(based)}, conflict |-> FALSE,
     cites |-> AddAll(<<>>, FlattenSeq([i \in 1..Len(based) |->
                                           based[i].cites]))]

\* Several parts are merged by one more call.  A merged thesis that names
\* nothing verified is dropped.
Reduce ==
    /\ task = "map" /\ Len(theses) = Parts /\ Parts > 1
    /\ \E refs1, refs2 \in SUBSET (0..Parts) :
          LET claims == Cited(<<Merged(refs1), Merged(refs2)>>) IN
          /\ dropped' = dropped + 2 - Len(claims)
          /\ reply' = SummaryOf(claims)
    /\ Answered("done")
    /\ UNCHANGED <<theses, conflicts, proposed>>

-----------------------------------------------------------------------------

ReplyingInit ==
    /\ client = 0 /\ tried = <<>>
    /\ \/ task = "answer" /\ shelf = <<>>
       \/ task = "ask" /\ shelf \in Shelves
    /\ asked = <<>> /\ shown = 0 /\ allowed = {} /\ lengths = <<>>
    /\ theses = <<>> /\ conflicts = <<>>
    /\ dropped = 0 /\ proposed = 0
    /\ reply = NoReply

ReplyingNext ==
    \/ \E o \in {"connection", "auth", "quota", "rate", "bad"} : CallFails(o)
    \/ ReceiveAnswer \/ CheckSupport
    \/ ShowPrice \/ BuildContext \/ ReadPart \/ OnePart \/ Reduce

ReplyingSpec == ReplyingInit /\ [][ReplyingNext]_replyingVars

(***************************************************************************)
(* The failover loses nothing and repeats nothing: within one call no      *)
(* client is used twice and no proxy of a key that was refused, no error   *)
(* of OpenAI itself but a refused key is sent again ("that could pay       *)
(* twice"), and unless it met such an error the call gives up only when    *)
(* every key was refused or had all of its proxies out of reach.           *)
(***************************************************************************)
FailoverComplete ==
    LET At(k) == {i \in 1..Len(tried) : KeyOf(tried[i][1]) = k}
        refused(k) == {i \in At(k) : tried[i][2] \in {"auth", "quota"}}
    IN /\ \A i, j \in 1..Len(tried) : i < j =>
             /\ tried[i][1] < tried[j][1]
             /\ tried[i][2] \notin {"rate", "bad"}
             /\ i \notin refused(KeyOf(tried[j][1]))
       /\ task = "failed" =>
             \/ Last(tried)[2] \in {"rate", "bad"}
             \/ \A k \in 0..(KeyCount - 1) :
                   refused(k) /= {} \/ Cardinality(At(k)) = ProxyCount

(***************************************************************************)
(* Every block of a reply is backed: it cites at least one and at most     *)
(* MaxCited entries of the table, which holds no entry twice, and each was *)
(* found for the claims the block was made of; an answer reports a         *)
(* conflict only with two sides; and every claim the model sent is either  *)
(* in the answer or counted as dropped.                                    *)
(***************************************************************************)
RepliesBacked ==
    LET blocks == reply.blocks
        all == FlattenSeq(theses)
        sides == {i \in 1..Len(blocks) : blocks[i].conflict} IN
    task = "done" =>
        /\ \A i, j \in 1..Len(reply.table) :
              reply.table[i] = reply.table[j] => i = j
        /\ \A b \in 1..Len(blocks) :
              /\ Len(blocks[b].cites) \in 1..MaxCited
              /\ \A k \in 1..Len(blocks[b].cites) :
                    /\ blocks[b].cites[k] \in 1..Len(reply.table)
                    /\ \E t \in 1..Len(all) :
                          /\ all[t].of \subseteq blocks[b].of
                          /\ reply.table[blocks[b].cites[k]]
                                \in ToSet(all[t].cites)
        /\ Cardinality(sides) /= 1
        /\ lengths = <<>> => proposed - dropped = Len(blocks)

(***************************************************************************)
(* The parts of a summary are sound: no chunk is read twice or out of its  *)
(* turn, no call is given more than a part holds unless a single chunk     *)
(* does, and what is reported as covered is everything exactly when the    *)
(* limit of the batches left nothing out.                                  *)
(***************************************************************************)
PartsAreSound ==
    LET plan == Plan(lengths) IN
    lengths /= <<>> =>
        /\ task = "done" => (reply.covered = SumSeq(lengths)) <=>
                                Len(plan) <= MaxBatches
        /\ FlattenSeq(plan) = [i \in 1..Len(lengths) |-> i]
        /\ \A p \in 1..Len(plan) :
              \/ Len(plan) = 1 /\ SumSeq(lengths) <= SinglePass
              \/ Len(plan[p]) = 1
              \/ PartSize(lengths, plan[p]) <= PartChars

\* charge(), from usage.units.
Charged == SummaryPrice(reply.units)

(***************************************************************************)
(* A summary of sources that were asked for in the order of their creation *)
(* never costs more than it was shown for, whatever has become of them     *)
(* since, and exactly that while none is lost: leaving chunks out never    *)
(* makes the greedy split longer.                                          *)
(***************************************************************************)
NeverDearer ==
    LET inOrder == \A i, j \in 1..Len(asked) : i < j => asked[i] < asked[j] IN
    task = "done" /\ lengths /= <<>> /\ inOrder =>
        /\ Charged <= shown
        /\ allowed = ToSet(asked) => Charged = shown

-----------------------------------------------------------------------------
(* What comments of the code claim.                                        *)

(***************************************************************************)
(* summaries.py: "the price shown and checked before the run is the price  *)
(* the run charges", here if no source is lost in between.                 *)
(***************************************************************************)
ShownIsCharged ==
    task = "done" /\ lengths /= <<>> /\ allowed = ToSet(asked) =>
        Charged = shown

=============================================================================
