---------------------------- MODULE NativePolicy ----------------------------
(***************************************************************************)
(* The optional native destination policy of src/src/native_policy.rs: the *)
(* envelope a program may carry in its parameters, how it is parsed, and   *)
(* how it is enforced on an ownership proof.                               *)
(*                                                                         *)
(* Scripts and VTXO policies are members of one set, Destinations: the     *)
(* code only compares them for equality.  BadEntry stands for a list entry *)
(* that is not valid hex of a script or policy.                            *)
(***************************************************************************)
EXTENDS Naturals, Sequences

CONSTANTS
    Destinations,   \* scripts and VTXO policies that decode
    BadEntry        \* a list entry that does not decode

ASSUME BadEntryAssumption == BadEntry \notin Destinations

Variants == {"arkoor", "round", "delegated_round", "offboard"}
Switches == {"status", "lightning_receive"}

(* The JSON document, with its four lists, two switches, its version and   *)
(* whether it names a field outside the schema (deny_unknown_fields).      *)
Document == [version : Nat, unknown_field : BOOLEAN,
             lists : [Variants -> SUBSET (Destinations \cup {BadEntry})],
             switches : [Switches -> BOOLEAN]]

(* The validated policy: what `parse` keeps of a document.                 *)
NativePolicyType == [lists : [Variants -> SUBSET Destinations],
                     switches : [Switches -> BOOLEAN]]

(***************************************************************************)
(* Parameters: MAGIC || u32_le(length) || JSON(document) || inner.         *)
(* `magic` says whether the blob starts with MAGIC, `header` how many of   *)
(* the four length bytes follow, `length` their value, and `body` the      *)
(* bytes after them as tokens.                                             *)
(***************************************************************************)
LengthBytes == 4

Byte(name) == [token |-> name]

Token == [token : {"{", "}", "inner"}] \cup [token : {"members"}, members : Document]

Parameters == [magic : BOOLEAN, header : 0..LengthBytes, length : Nat, body : Seq(Token)]

(* A document takes several bytes, so that a length can cut it.            *)
Json(document) ==
    <<Byte("{"), [token |-> "members", members |-> document], Byte("}")>>

(* serde_json::from_slice: the whole slice is one document, or an error.   *)
IsJson(slice) ==
    /\ Len(slice) = 3
    /\ slice[1].token = "{" /\ slice[2].token = "members" /\ slice[3].token = "}"

Malformed == [ok |-> FALSE]
NoPolicy  == [ok |-> TRUE, enveloped |-> FALSE]
Parsed(document) ==
    [ok |-> TRUE, enveloped |-> TRUE,
     policy |-> [lists |-> document.lists, switches |-> document.switches]]

(* The document's own checks: version one, no unknown field, and every     *)
(* entry of every list decodes.                                            *)
ValidDocument(document) ==
    /\ ~document.unknown_field
    /\ document.version = 1
    /\ \A v \in Variants : BadEntry \notin document.lists[v]

(* Mutant: the length is not used, the JSON runs to the end.               *)
Parse_ToEnd(parameters) ==
    CASE ~parameters.magic -> NoPolicy
      [] parameters.magic /\ parameters.header < LengthBytes -> Malformed
      [] OTHER -> IF IsJson(parameters.body) /\ ValidDocument(parameters.body[2].members)
                  THEN Parsed(parameters.body[2].members)
                  ELSE Malformed

Parse(parameters) ==
    LET end == LengthBytes + parameters.length
        slice == SubSeq(parameters.body, 1, parameters.length)
    IN  CASE ~parameters.magic -> NoPolicy
          [] parameters.magic /\ parameters.header < LengthBytes -> Malformed
          [] OTHER -> IF /\ end <= LengthBytes + Len(parameters.body)
                         /\ IsJson(slice)
                         /\ ValidDocument(slice[2].members)
                      THEN Parsed(slice[2].members)
                      ELSE Malformed

(* Encode what a client constructs: the envelope before its own bytes.     *)
Encode(document, inner) ==
    [magic |-> TRUE, header |-> LengthBytes,
     length |-> Len(Json(document)), body |-> Json(document) \o inner]

(* Every output of a listed variant, or the one script of an offboard,     *)
(* must be in its list; the switches are explicit booleans.                *)
Enforce(policy, proof) ==
    IF proof.variant \in Switches
    THEN policy.switches[proof.variant]
    ELSE \A i \in DOMAIN proof.outputs :
            proof.outputs[i] \in policy.lists[proof.variant]

-----------------------------------------------------------------------------
(* The valid documents whose encoding, before some inner bytes, the        *)
(* parameters are.  Such a document is one of the body's tokens.           *)
IsEncoding(parameters, document) ==
    /\ ValidDocument(document)
    /\ \E n \in 0..Len(parameters.body) :
          parameters = Encode(document, SubSeq(parameters.body, n + 1, Len(parameters.body)))

Encoded(parameters) ==
    {document \in {parameters.body[i].members :
                      i \in {j \in DOMAIN parameters.body : parameters.body[j].token = "members"}} :
        IsEncoding(parameters, document)}
=============================================================================
