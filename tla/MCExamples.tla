----------------------------- MODULE MCExamples -----------------------------
(***************************************************************************)
(* The three example clients, and single requests chosen around the        *)
(* predicates' boundaries.  A wide request expects nothing: VaultIsExact   *)
(* and TemplateIsExact say what it must get.                               *)
(***************************************************************************)
EXTENDS ProgramExamples

(* Sweeps: one or two inputs, the first or the second selected, up to two  *)
(* outputs, amounts at the dust floor and around the fee cap.              *)
Fees == {0, 10}
SweepFunding == {329, 330, 340, 341}
SweepOutputs ==
    LET output == {Output(v, Recipient(t)) : v \in {0, 329, 330, 331, 341, 342}, t \in {1, 2}}
    IN  {<<>>} \cup {<<o>> : o \in output} \cup {<<o, Output(1, Recipient(1))>> : o \in output}

SweepTransaction(inputs, index, outputs) ==
    [version |-> 2, lock_time |-> 0, index |-> index, internal_key |-> 0,
     inputs |-> [i \in 1..inputs |-> Input(i, 255, 5, Recipient(9))], outputs |-> outputs]

(* Parameters as the contract encodes them, cut short, or with a tail.     *)
Damage == {"none", "cut", "tail"}
Damaged(parameters, damage) ==
    CASE damage = "none" -> parameters
      [] damage = "cut" -> Front(parameters)
      [] damage = "tail" -> Append(parameters, 0)

-----------------------------------------------------------------------------
(* Templates: script lengths on both sides of each compactSize boundary,   *)
(* and one transaction too large for the arena's scratch space.            *)
Script(length) == [i \in 1..length |-> 7]
TemplateOutputs ==
    {<<>>} \cup {<<Output(v, Script(n))>> : v \in {1, 2}, n \in {0, 2, 3, 4, 6, 7}}
    \cup {<<Output(1, Script(n)), Output(2, Script(m))>> : n, m \in {0, 3}}

Template(version, sequence, outputs) ==
    [version |-> version, lock_time |-> 3, index |-> 0, internal_key |-> 0,
     inputs |-> <<Input(1, 255, 4, <<>>), Input(2, sequence, 4, Recipient(1))>>,
     outputs |-> outputs]

Templates == {Template(v, s, o) : v \in {1, 2}, s \in {1, 2}, o \in TemplateOutputs}
LargeTemplates == {Template(2, 1, <<Output(1, Script(n))>>) : n \in 20..24}

MCCommitted == Templates \cup LargeTemplates \cup {TemplateTransaction, VectorTransaction}

-----------------------------------------------------------------------------
(* Arguments at their limits, and one past them.                           *)
LongSweep(script, parameters, witness) ==
    [Request(Instance("vault", <<>>, [i \in 1..parameters |-> 0]), "key",
             SweepTransaction(1, 0, <<Output(330, Script(script))>>), 340)
     EXCEPT !.witness = Script(witness)]

(* The view of such a sweep has 85 bytes and the output script.            *)
LongLengths == {MaxView - 86, MaxView - 85, MaxView - 84}

Wide(r) == Begin(<<[request |-> r, verdict |-> "any", as |-> r]>>)

MCInit ==
    \/ Begin(VaultSteps)
    \/ Begin(TemplateSteps)
    \/ Begin(OracleSteps)
    \/ \E fee \in Fees, funding \in SweepFunding, inputs \in 1..2, index \in 0..1,
          outputs \in SweepOutputs, damage \in Damage :
          /\ index < inputs
          /\ Wide(Request(Instance("vault", <<>>,
                                   Damaged(VaultParameters(fee, Recipient(1)), damage)),
                          "key", SweepTransaction(inputs, index, outputs), funding))
    \/ \E committed \in Templates, spent \in Templates, i \in 0..1, j \in 0..1 :
          /\ i = j \/ committed = spent
          /\ Wide(Request(InstanceFor(committed, i), "key", [spent EXCEPT !.index = j], 9))
    \/ \E large \in LargeTemplates : Wide(Request(InstanceFor(large, 0), "key", large, 9))
    \/ \E script \in LongLengths, parameters \in {1, MaxArgument, MaxArgument + 1},
          witness \in {0, MaxArgument, MaxArgument + 1} :
          Wide(LongSweep(script, parameters, witness))

(* Each of these lists is a plan, so that MCSpec is a part of Spec.        *)
MCPlans == MCInit /\ IsPlan(steps)

MCSpec == MCPlans /\ [][Next]_vars

-----------------------------------------------------------------------------
(* No client stops early: every request of every main gets the verdict the *)
(* main expects, the last valid one after all the rejections, and no       *)
(* fixture changes the commitment or the funding it claims to keep.        *)
ClientsPass == phase # "failed"
=============================================================================
