---------------------------- MODULE SignedPayload ----------------------------
(***************************************************************************)
(* The two signed CBOR envelopes a card can hold: shell programs           *)
(* (shell_cards.py) and managed commands (codec.py), told apart, checked   *)
(* and verified.  A payload is a CBOR map given by what each field is, for *)
(* the decoders, a value of.                                               *)
(***************************************************************************)
EXTENDS Integers, FiniteSets

CONSTANTS Issuer,      \* names that ISSUER matches
          Key,         \* Ed25519 keys
          NoKey,       \* nobody's key
          Timeout      \* timeouts of programs, in ticks

ASSUME PayloadAssumption ==
    /\ NoKey \notin Key
    /\ Timeout \subseteq Nat \ {0}
    /\ Issuer \cap {"absent", "text", "null", "other"} = {}

\* 64 bytes: a signature by some key over this very envelope, as a program or
\* as a command, or (NoKey) over anything else.
Signature == [by : Key \cup {NoKey}, over : {"shell", "argv"}]
NoSignature == [by : {NoKey}, over : {"absent", "short"}]

\* "like one" is True or 1.0, equal to 1 but not of type int; "text" a string
\* that the program's field does not admit, "null" CBOR's null.
Payload ==
    [v : {"absent", "one", "like one", "other"},
     kind : {"absent", "shell", "other"},
     script : {"absent", "good", "other"},
     issuer : Issuer \cup {"absent", "text", "null", "other"},
     label : {"absent", "good", "text", "null", "other"},
     timeout : Timeout \cup {0, -1},                 \* -1: absent, 0: not in 1..300
     argv : {"absent", "good", "empty", "other"},
     sig : Signature \cup NoSignature,
     extra : BOOLEAN,                                \* any other field
     canonical : BOOLEAN]

-----------------------------------------------------------------------------
(* Shell programs *)

\* The checks of ShellProgram.
IsProgram(p) ==
    /\ p.script = "good"
    /\ p.issuer \in Issuer
    /\ p.label = "good"
    /\ p.timeout \in Timeout

EncodeProgram(issuer, timeout, key) ==
    [v |-> "one", kind |-> "shell", script |-> "good", issuer |-> issuer,
     label |-> "good", timeout |-> timeout, argv |-> "absent",
     sig |-> [by |-> key, over |-> "shell"], extra |-> FALSE, canonical |-> TRUE]

\* decode_program: exactly the seven fields, canonically encoded.
Decodes(p) ==
    /\ p.argv = "absent" /\ ~p.extra
    /\ p.v = "one" /\ p.kind = "shell"
    /\ p.canonical
    /\ p.sig \in Signature
    /\ IsProgram(p)

\* Mutant: the signature of any trusted issuer will do.
VerifiesAny(p, trusted) ==
    /\ Decodes(p)
    /\ p.sig.over = "shell"
    /\ p.sig.by \in {trusted[i] : i \in Issuer} \ {NoKey}

\* verify_program; trusted[i] is NoKey for an issuer without a key file.
Verifies(p, trusted) ==
    /\ Decodes(p)
    /\ trusted[p.issuer] # NoKey
    /\ p.sig = [by |-> trusted[p.issuer], over |-> "shell"]

-----------------------------------------------------------------------------
(* Managed commands *)

Optional(value) == value \in {"absent", "null"}
IsString(value) == value \in Issuer \cup {"good", "text"}

\* decode_signed: no unknown field, but not every known one.
DecodesCommand(p) ==
    /\ p.canonical
    /\ ~p.extra /\ p.kind = "absent" /\ p.script = "absent" /\ p.timeout = -1
    /\ p.argv = "good"
    /\ p.sig \in Signature
    /\ \A f \in {p.label, p.issuer} : Optional(f) \/ IsString(f)
    /\ p.v \in {"one", "like one"}

\* The command a payload holds: None and a missing field are one to it.
CommandOf(p) ==
    [argv |-> p.argv, version |-> p.v, signature |-> p.sig,
     label |-> IF Optional(p.label) THEN "null" ELSE p.label,
     issuer |-> IF Optional(p.issuer) THEN "null" ELSE p.issuer]

\* Mutant: None is written as null.
FieldKept(value) == value

\* unsigned_map: fields that are None are left out.
Field(value) == IF value = "null" THEN "absent" ELSE value

\* encode_signed.
EncodeCommand(command) ==
    [v |-> command.version, kind |-> "absent", script |-> "absent",
     issuer |-> Field(command.issuer), label |-> Field(command.label),
     timeout |-> -1, argv |-> command.argv, sig |-> command.signature,
     extra |-> FALSE, canonical |-> TRUE]

\* to_json_dict, from_json_dict: the fields without the CBOR map around them;
\* unknown ones are not looked at.
ToJson(command) ==
    [v |-> command.version, argv |-> command.argv, sig |-> command.signature,
     issuer |-> Field(command.issuer), label |-> Field(command.label), extra |-> FALSE]

ReadsJson(json) ==
    /\ json.argv = "good"
    /\ json.sig \in Signature
    /\ \A f \in {json.label, json.issuer} : Optional(f) \/ IsString(f)
    /\ json.v \in {"one", "like one"}

FromJson(json) == CommandOf(json)

\* codec.verify: signing_bytes is the map without the fields that are None.
VerifiesCommand(p, key) ==
    DecodesCommand(p) /\ p.sig = [by |-> key, over |-> "argv"]
=============================================================================
