---------------------------- MODULE MCServices -----------------------------
(***************************************************************************)
(* The services around the answers: the instances of Materials, Auth,      *)
(* RateLimit and Catalogue for one run of TLC.  They share no variable; a  *)
(* behaviour is one of one of them, `part', while the others rest.         *)
(***************************************************************************)
EXTENDS Materials, Auth, RateLimit, Catalogue, TLC

CONSTANTS s1, s2, q1, q2, w1, w2, k1, l1, b1, u1, u2, u3, t1, t2, t3

VARIABLE part

\* s1, s2 are sources or devices, q1, q2 requests or calls, w1, w2 workers or
\* Apple subjects.
Symmetry == Permutations({s1, s2}) \cup Permutations({q1, q2})
                \cup Permutations({w1, w2})

\* The same file sent twice under one key, and an article without a key.
SmallOffers == {[kind |-> "file", key |-> k1, content |-> b1, size |-> 1],
                [kind |-> "web", key |-> NoKey, content |-> l1, size |-> 0]}

\* A generation is limited per user and per address, another route per user.
SmallRoutes == {<<"user", "ip">>, <<"user">>}
SmallLimit == [k \in {"user", "ip"} |-> IF k = "user" THEN 2 ELSE 1]

SmallEntries ==
    [kind: {"subscription", "tokens", "bad"}, credits: {0, 3},
     channels: {{}, {"adapty"}, {"adapty", "cloudpayments"},
                {"cloudpayments", "other"}},
     period: {NoPeriod, <<"bad">>, <<1, "M">>, <<3, "M">>, <<1, "Y">>,
              <<2, "W">>, <<7, "D">>}]

\* Ordinary days, the ends of months and the leap day.
SmallDates == [month: {0, 1}, day: {1, 28}] \cup
              {[month |-> 0, day |-> 29], [month |-> 0, day |-> 31],
               [month |-> 13, day |-> 29], [month |-> 2, day |-> 31]}

ServicesInit ==
    /\ part \in {"materials", "auth", "limits", "catalogue"}
    /\ Init
    /\ AuthInit
    /\ RateInit
    /\ IF part = "catalogue" THEN CatalogueInit
       ELSE /\ entry = "none" /\ link = FALSE /\ begun = NoDate
            /\ until = NoDate /\ paid = 0 /\ credited = 0

ServicesNext ==
    /\ UNCHANGED part
    /\ \/ /\ part = "materials" /\ Next
          /\ UNCHANGED <<authVars, rateVars, catalogueVars>>
       \/ /\ part = "auth" /\ AuthNext
          /\ UNCHANGED <<vars, rateVars, catalogueVars>>
       \/ /\ part = "limits" /\ RateNext
          /\ UNCHANGED <<vars, authVars, catalogueVars>>
       \/ /\ part = "catalogue" /\ CatalogueNext
          /\ UNCHANGED <<vars, authVars, rateVars>>

ServicesSpec ==
    ServicesInit /\ [][ServicesNext]_<<part, vars, authVars, rateVars,
                                       catalogueVars>>

\* Every row, request and worker of Materials and Auth is well formed.
ServicesTypeOK == IF part = "auth" THEN AuthTypeOK ELSE TypeOK

=============================================================================
