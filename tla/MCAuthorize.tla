---------------------------- MODULE MCAuthorize -----------------------------
(***************************************************************************)
(* Authorize over three families of cases: requests that mix programs,     *)
(* keys and actions; parameters with every kind of envelope; modules with  *)
(* every short sequence of payloads, and inputs of every length.           *)
(***************************************************************************)
EXTENDS Authorize

CONSTANTS
    d1, d2,         \* destinations
    MaxPayloads     \* bound: payloads of a module

(* A policy with one list for every variant but arkoor, whose list is      *)
(* empty.                                                                  *)
Policy(list, status) ==
    [version |-> 1, unknown_field |-> FALSE,
     lists |-> [v \in Variants |-> IF v = "arkoor" THEN {} ELSE list],
     switches |-> [s \in Switches |-> s = "status" /\ status]]

Plain == [magic |-> FALSE, header |-> 0, length |-> 0, body |-> <<>>]

Program(evaluator, parameters, approves) ==
    [evaluator |-> evaluator, parameters |-> parameters, approves |-> approves]

(* A legacy program, a strict and a permissive policy on an inline program,*)
(* a policy on a registered program, a policy of a wrong version, and a    *)
(* program whose evaluator nobody knows.                                   *)
MCPrograms ==
    {Program("pay_at_least", Plain, {"m1"}),
     Program("wasm_v2", Encode(Policy({d1}, FALSE), <<Byte("inner")>>), {"m1"}),
     Program("wasm_v1", Encode(Policy({d1, d2}, TRUE), <<>>), {"m2"}),
     Program("pay_at_least", Encode(Policy({d1}, TRUE), <<>>), {"m1"}),
     Program("wasm_v1", Encode([Policy({d1}, TRUE) EXCEPT !.version = 2], <<>>), {"m1"}),
     Program("unknown", Plain, {"m1"})}

MCActions ==
    {[kind |-> "spend", context_valid |-> v, psbt_valid |-> v, sighash |-> m,
      finalized |-> f, annex |-> a] :
        v \in BOOLEAN, m \in Messages, f \in BOOLEAN, a \in BOOLEAN}
    \cup {[kind |-> "ownership", proof_message |-> m, proof |-> p] :
        m \in Messages,
        p \in {[variant |-> "offboard", outputs |-> <<d1>>],
               [variant |-> "round", outputs |-> <<d1, d2>>],
               [variant |-> "arkoor", outputs |-> <<>>],
               [variant |-> "status", outputs |-> <<>>]}}

(* At most one of the request's own formats is wrong.                      *)
Formats == {f \in [protocol_ok : BOOLEAN, intent_valid : BOOLEAN, nonce_valid : BOOLEAN] :
               Cardinality({x \in DOMAIN f : ~f[x]}) <= 1}

Request(f, r, p, i, q, a) ==
    [protocol_ok |-> f.protocol_ok, intent_valid |-> f.intent_valid,
     nonce_valid |-> f.nonce_valid, root |-> r, program |-> p, program_id |-> i,
     member |-> DeriveKey(r, q), message |-> "m1", action |-> a]

WellFormed == [protocol_ok |-> TRUE, intent_valid |-> TRUE, nonce_valid |-> TRUE]
GoodSpend == [kind |-> "spend", context_valid |-> TRUE, psbt_valid |-> TRUE,
              sighash |-> "m1", finalized |-> FALSE, annex |-> FALSE]

-----------------------------------------------------------------------------
(* Documents: every version, field and entry fault; a list with one        *)
(* destination, with an entry that is no destination, and none.            *)
MCDocuments ==
    {[version |-> v, unknown_field |-> u,
      lists |-> [x \in Variants |-> IF x = w THEN l ELSE {}],
      switches |-> [x \in Switches |-> x = "status"]] :
        v \in {1, 2}, u \in BOOLEAN, w \in Variants, l \in {{}, {d1}, {BadEntry}}}

InnerParameters == {<<>>, <<Byte("inner")>>, <<Byte("}")>>}

(* What clients can put into parameters: an encoded document, the same     *)
(* with a length that is too short, too long or reaches into the inner     *)
(* bytes, with a truncated header, or without the magic bytes.             *)
MCParameters ==
    LET good == {Encode(d, i) : d \in MCDocuments, i \in InnerParameters}
    IN  good
        \cup {[p EXCEPT !.length = n] : p \in good, n \in {0, 2, 4, 5}}
        \cup {[p EXCEPT !.header = 2] : p \in good}
        \cup {[p EXCEPT !.magic = FALSE] : p \in good}

-----------------------------------------------------------------------------
MCPayloads ==
    {[kind |-> "types", types |-> <<[params |-> 2, i32_only |-> TRUE]>>],
     [kind |-> "types", types |-> <<[params |-> 1, i32_only |-> FALSE],
                                    [params |-> 3, i32_only |-> TRUE]>>],
     [kind |-> "import", namespace |-> "crypto", arity |-> 2, index |-> 0,
      is_function |-> TRUE],
     [kind |-> "import", namespace |-> "crypto_v2", arity |-> 3, index |-> 1,
      is_function |-> TRUE],
     [kind |-> "import", namespace |-> "env", arity |-> 2, index |-> 0,
      is_function |-> TRUE],
     [kind |-> "import", namespace |-> "crypto", arity |-> 2, index |-> 0,
      is_function |-> FALSE],
     [kind |-> "function", index |-> 0],
     [kind |-> "function", index |-> 1],
     [kind |-> "locals", count |-> 2],
     [kind |-> "locals", count |-> CountRange - 1],
     [kind |-> "start"], [kind |-> "malformed"], [kind |-> "other"]}

MCModules == [header : BOOLEAN,
              payloads : UNION {[1..n -> MCPayloads] : n \in 0..MaxPayloads}]

SmallModule == [header |-> TRUE, payloads |-> <<[kind |-> "other"]>>]

-----------------------------------------------------------------------------
(* Only a view; a view and a witness that is too long.                     *)
ViewOnly == [i \in Inputs |-> IF i = 2 THEN 1 ELSE 0]
TooLong == [ViewOnly EXCEPT ![3] = MaxInput + 1]

Spending(program) == Request(WellFormed, "root1", program, program, program, GoodSpend)

(* Mixed requests with a small module and a short input; each kind of      *)
(* envelope; each module, with inputs that end the evaluation after the    *)
(* scan; each choice of input lengths and memory sizes.                    *)
MCInit ==
    \/ \E r \in Roots, f \in Formats, s \in Roots, p \in MCPrograms, i \in MCPrograms,
          q \in MCPrograms, a \in MCActions :
          Start(r, Request(f, s, p, i, q, a), SmallModule, ViewOnly, 1)
    \/ \E x \in MCParameters :
          Start("root1", Spending(Program("wasm_v1", x, {"m1"})), SmallModule, TooLong, 1)
    \/ \E e \in InlineEvaluators, m \in MCModules :
          Start("root1", Spending(Program(e, Plain, {})), m, TooLong, 1)
    \/ \E l \in [Inputs -> 0..(MaxInput + 1)], size \in 1..AddressRange :
          Start("root1", Spending(Program("wasm_v1", Plain, {})), SmallModule, l, size)

(* A part of Spec: TypeOK, which the run checks, says that these initial   *)
(* states are initial states of Authorize.                                 *)
MCSpec == MCInit /\ [][Next]_vars

(* The programs of all of them.                                            *)
AllPrograms ==
    MCPrograms \cup {Program("wasm_v1", x, {"m1"}) : x \in MCParameters}
        \cup {Program(e, Plain, {}) : e \in InlineEvaluators}
=============================================================================
