---------------------------- MODULE MCPipeline -----------------------------
(***************************************************************************)
(* An answer from its question to its citations: the instances of Answers  *)
(* (billing and queue), Reading (what is read), Replying (what the model's *)
(* replies become) and Citing (quotes and offsets) for one run of TLC.     *)
(* The modules share no variable; a behaviour is one of one of them,       *)
(* `part', while the others rest.                                          *)
(***************************************************************************)
EXTENDS Answers, Reading, Replying, Citing, TLC

CONSTANTS m1, m2, w1, w2, t1, x, y

VARIABLE part

\* m1, m2 are questions of Answers or sources of Reading.
Symmetry == Permutations({m1, m2}) \cup Permutations({w1, w2})

\* Citations a claim comes with: none, found, not found, repeated, too many.
SmallRaw == {<<>>, <<x>>, <<Unfound, y>>, <<x, x, y>>}

\* Topics of a summary: a source in one pass, one that fills a part, and two
\* in an order that matters, with an oversized chunk and more parts than are
\* read.
SmallShelves == {<<<<1>>>>, <<<<2, 1, 1>>>>, <<<<1>>, <<4, 2>>>>}

\* Words and paragraphs, broken words, and characters that change their
\* length when they are normalized.
Strings(A, n) == UNION {[1..k -> A] : k \in 1..n}
SmallTexts == Strings({"a", ".", " ", "nl"}, 4) \cup
              Strings({"a", "b", "-", "nl"}, 4) \cup
              Strings({"a", "fi", "shy", "A", ")"}, 2) \cup
              {<<"a", ".", ")", " ", "a">>, <<"a", "nl", "nl", "b", " ", "a">>,
               <<"a", " ", "b", " ", "a", "b">>}
SmallQuotes == {<<q>> : q \in Strings({"a", "b", "-"}, 2)} \cup
               {<<<<"a">>, <<"b">>>>, <<<<"a">>, <<"a">>>>,
                <<<<"a">>, <<" ">>, <<"b">>>>, <<<<"a">>, <<"b">>, <<"a">>>>,
                <<<<"a", " ", "a">>>>, <<<<"i", "a">>>>, <<<<"a", "f">>>>}

PipelineInit ==
    /\ part \in {"answers", "reading", "replying", "citing"}
    /\ Init
    /\ ReadingInit
    /\ ReplyingInit /\ (part /= "replying" => task = "answer")
    /\ IF part = "citing" THEN CitingInit
       ELSE /\ version = <<"a">> /\ spans = <<[start |-> 1, end |-> 1]>>
            /\ context = {1} /\ cited = Nowhere

PipelineNext ==
    /\ UNCHANGED part
    /\ \/ /\ part = "answers" /\ Next
          /\ UNCHANGED <<readingVars, replyingVars, citingVars>>
       \/ /\ part = "reading" /\ ReadingNext
          /\ UNCHANGED <<vars, replyingVars, citingVars>>
       \/ /\ part = "replying" /\ ReplyingNext
          /\ UNCHANGED <<vars, readingVars, citingVars>>
       \/ /\ part = "citing" /\ CitingNext
          /\ UNCHANGED <<vars, readingVars, replyingVars>>

PipelineSpec ==
    PipelineInit /\ [][PipelineNext]_<<part, vars, readingVars, replyingVars,
                                       citingVars>>

=============================================================================
