---------------------------- MODULE ModuleBudget ----------------------------
(***************************************************************************)
(* check_module_bytes and check_compilation_budget of src/src/evaluator.rs:*)
(* one pass over the payloads of a WASM module before it is compiled.  The *)
(* running total of parameter and local slots is a u32 with a checked      *)
(* addition; types are known only once their section has been read.        *)
(***************************************************************************)
EXTENDS Naturals, Sequences

CONSTANTS
    MaxSlots,       \* MAX_FUNCTION_SLOTS
    CountRange      \* the size of the counter's range: 2^32 in the code

ASSUME BudgetAssumption == MaxSlots \in Nat /\ CountRange \in Nat /\ MaxSlots < CountRange

VARIABLES
    version,    \* WasmVersion of the evaluator
    module,     \* the module being scanned
    next,       \* index of the payload to read
    types,      \* function_types
    slots,      \* the u32 total
    verdict     \* "scanning", "accept" or "reject"

scanVars == <<version, module, next, types, slots, verdict>>

(* A module as the parser presents it: whether its length and first bytes  *)
(* pass, and its payloads, some of which carry what the budget counts.     *)
FunctionType == [params : Nat, i32_only : BOOLEAN]

PayloadType ==
    [kind : {"types"}, types : Seq(FunctionType)]
    \cup [kind : {"import"}, namespace : STRING, arity : Nat, index : Nat, is_function : BOOLEAN]
    \cup [kind : {"function"}, index : Nat]
    \cup [kind : {"locals"}, count : 0..(CountRange - 1)]
    \cup [kind : {"start", "malformed", "other"}]

Module == [header : BOOLEAN, payloads : Seq(PayloadType)]

(* check_module_bytes: small enough and a version-one binary.              *)
ScanInit(v, m) ==
    /\ version = v
    /\ module = m
    /\ next = 1
    /\ types = <<>>
    /\ slots = 0
    /\ verdict = IF module.header THEN "scanning" ELSE "reject"

Payload == module.payloads[next]
Reading(kind) ==
    verdict = "scanning" /\ next <= Len(module.payloads) /\ Payload.kind = kind

(* Mutant: the addition wraps.                                             *)
AddSlots_Wrapping(count) == LET total == (slots + count) % CountRange
                            IN  [ok |-> total <= MaxSlots, total |-> total]

(* add_slots: checked_add, then the limit.                                 *)
AddSlots(count) ==
    LET total == slots + count
    IN  [ok |-> total < CountRange /\ total <= MaxSlots, total |-> total]

Advance == next' = next + 1 /\ UNCHANGED <<version, module, verdict>>
Reject == verdict' = "reject" /\ UNCHANGED <<version, module, next, types, slots>>

(* A section of types; the parser may stop at an undecodable entry.        *)
ReadTypes ==
    /\ Reading("types")
    /\ Advance
    /\ types' = types \o Payload.types
    /\ UNCHANGED slots

(* The crypto imports an evaluator may use: the v2 namespace only with v2. *)
(* `arity` is the number of parameters that goes with the imported name.   *)
KnownImport(payload) ==
    payload.namespace = "crypto" \/ (payload.namespace = "crypto_v2" /\ version = 2)

ImportAllowed(payload) ==
    /\ KnownImport(payload)
    /\ payload.is_function
    /\ payload.index < Len(types)
    /\ LET type == types[payload.index + 1]
       IN  type.params = payload.arity /\ type.i32_only

ReadImport ==
    /\ Reading("import")
    /\ IF ImportAllowed(Payload) THEN Advance /\ UNCHANGED <<types, slots>>
                                 ELSE Reject

(* A defined function adds the parameters of its type.                     *)
ReadFunction ==
    /\ Reading("function")
    /\ IF Payload.index < Len(types) /\ AddSlots(types[Payload.index + 1].params).ok
       THEN /\ Advance
            /\ slots' = AddSlots(types[Payload.index + 1].params).total
            /\ UNCHANGED types
       ELSE Reject

(* A function body adds its declared locals.                               *)
ReadLocals ==
    /\ Reading("locals")
    /\ IF AddSlots(Payload.count).ok
       THEN Advance /\ slots' = AddSlots(Payload.count).total /\ UNCHANGED types
       ELSE Reject

(* A start section, and a payload that does not parse.                     *)
ReadRefused ==
    /\ Reading("start") \/ Reading("malformed")
    /\ Reject

ReadOther ==
    /\ Reading("other")
    /\ Advance
    /\ UNCHANGED <<types, slots>>

Accept ==
    /\ verdict = "scanning"
    /\ next > Len(module.payloads)
    /\ verdict' = "accept"
    /\ UNCHANGED <<version, module, next, types, slots>>

ScanNext ==
    \/ ReadTypes \/ ReadImport \/ ReadFunction \/ ReadLocals
    \/ ReadRefused \/ ReadOther \/ Accept

-----------------------------------------------------------------------------
(* The types declared by the first k payloads.                             *)
KnownTypes(payloads) ==
    LET known[k \in 0..Len(payloads)] ==
          IF k = 0 THEN <<>>
          ELSE known[k - 1] \o (IF payloads[k].kind = "types" THEN payloads[k].types ELSE <<>>)
    IN  known

(* What payload k costs, and what the first k payloads cost together,      *)
(* summed without a limit on the sum.                                      *)
Cost(payloads, k) ==
    LET p == payloads[k]
        known == KnownTypes(payloads)[k - 1]
    IN  CASE p.kind = "function" -> IF p.index < Len(known) THEN known[p.index + 1].params ELSE 0
          [] p.kind = "locals" -> p.count
          [] OTHER -> 0

TotalCost(payloads) ==
    LET total[k \in 0..Len(payloads)] ==
          IF k = 0 THEN 0 ELSE total[k - 1] + Cost(payloads, k)
    IN  total

Allowed(payloads, k, v) ==
    LET p == payloads[k]
        known == KnownTypes(payloads)[k - 1]
    IN  /\ p.kind \notin {"start", "malformed"}
        /\ p.kind \in {"import", "function"} => p.index < Len(known)
        /\ p.kind = "import" =>
              /\ p.is_function
              /\ p.namespace \in (IF v = 2 THEN {"crypto", "crypto_v2"} ELSE {"crypto"})
              /\ known[p.index + 1] = [params |-> p.arity, i32_only |-> TRUE]

(* A module may be compiled: its payloads are all allowed and their slots  *)
(* fit the budget.                                                         *)
Compilable(m, v) ==
    /\ m.header
    /\ \A k \in DOMAIN m.payloads : Allowed(m.payloads, k, v)
    /\ TotalCost(m.payloads)[Len(m.payloads)] <= MaxSlots

(* The scan accepts exactly the compilable modules: the u32 counter cannot *)
(* be wrapped past the budget by a huge local count, a type shared by many *)
(* functions is charged for each, nothing legal is refused.                *)
ScanIsExact ==
    verdict # "scanning" => (verdict = "accept" <=> Compilable(module, version))
=============================================================================
