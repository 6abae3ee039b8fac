------------------------- MODULE ShellCommandProofs -------------------------
(***************************************************************************)
(* What ShellCommand promises, for any cards, issuers, keys and timeouts,  *)
(* and a program of any number of processes.                               *)
(***************************************************************************)
EXTENDS ShellCommand, TLAPS

\* Who wrote the card wrote what is on it.
Signed ==
    author # NoRequest =>
        /\ author \in Write
        /\ IsProgram(Program(author))
        /\ card = [shell |-> TRUE, payload |-> Program(author)]

\* Up to the start of a program.
Prelude ==
    /\ pc \in {"idle", "open", "card", "execute"} => session = NoSession /\ code = -1
    /\ pc \in {"open", "card"} => req \in Write \cup Reading
    /\ pc \in {"open", "card"} /\ req \in Write => IsProgram(Program(req))
    /\ pc = "execute" => req \in Reading /\ Decodes(payload) /\ payload \in Payload
    /\ window => pc = "card"

\* From there on.
Execution ==
    /\ Spawned => /\ req \in Reading /\ req.action = "run"
                  /\ pc \in {"try", "wait", "kill", "reap", "end", "killed"}
    /\ pc \in {"try", "wait", "kill", "reap"} => Spawned /\ code = -1
    /\ pc \in {"try", "wait"} => session.leader # "reaped"
    /\ pc = "kill" => /\ outcome \in {"exited", "timed out", "interrupted"}
                      /\ outcome = "exited" => session.leader = "reaped"
                      /\ outcome = "timed out" => session.leader # "reaped"
    /\ pc = "reap" => /\ session.members = 0
                      /\ session.leader = "running" => "leader" \in session.rooted

\* A stranger is met only under the id of a group that has been left by all.
Strangers ==
    /\ recycled \/ harmed => /\ pc \in {"kill", "reap", "end", "killed"}
                            /\ outcome \in {"exited", "interrupted"}
    /\ harmed => pc # "kill"
    /\ recycled /\ pc = "kill" => /\ session.leader = "reaped"
                                 /\ session.members = 0 /\ session.rooted = {}

\* ShellTypeOK in two parts.
Flags == window \in BOOLEAN /\ recycled \in BOOLEAN /\ harmed \in BOOLEAN

Data ==
    /\ card \in Card \cup {Blank}
    /\ author \in Write \cup {NoRequest}
    /\ pc \in Over \cup {"open", "card", "execute", "try", "wait", "kill", "reap"}
    /\ req \in Write \cup Reading \cup {NoRequest}
    /\ payload \in Payload \cup {Blank}
    /\ session \in Session
    /\ outcome \in {"none", "refused", "failed", "written", "inspected",
                    "exited", "timed out", "interrupted"}
    /\ code \in -1 .. 255

IInv ==
    /\ Flags /\ Data /\ Signed /\ Prelude /\ Execution /\ Strangers
    /\ OnlyTrustedRuns /\ NothingOutlives /\ ZeroMeansDone

-----------------------------------------------------------------------------
(* Payloads and sessions *)

\* The numbers the provers do not find by themselves.
LEMMA CodeRange ==
    /\ -1 \in -1 .. 255 /\ 0 \in -1 .. 255 /\ 1 \in -1 .. 255
    /\ 0 .. 255 \subseteq -1 .. 255
OBVIOUS

\* A timeout, or none, is a natural number.
LEMMA TimeoutIsNat == \A m : m \in Timeout \/ m = 0 => m \in Nat
<1>1. \A m : m \in Timeout => m \in Nat
  BY PayloadAssumption
<1>2. \A m : m = 0 => m \in Nat
  OBVIOUS
<1> QED BY <1>1, <1>2

\* Before any program there is a session too.
LEMMA NoSessionIsOne == NoSession \in Session
BY ShellAssumption DEF NoSession, Session

\* killpg leaves nobody it can signal running, and keeps what root owns.
LEMMA KilledSession ==
    ASSUME NEW s \in Session
    PROVE  /\ AfterKill(s) \in Session
           /\ AfterKill(s).members = 0 /\ AfterKill(s).rooted = s.rooted
           /\ AfterKill(s).left = s.left
           /\ AfterKill(s).leader = IF Running(s) THEN "zombie" ELSE s.leader
<1>1. /\ s.leader \in {"none", "running", "zombie", "reaped"} /\ s.status \in Int
      /\ -9 \in Int /\ 0 \in 0 .. MaxMembers
  BY ShellAssumption DEF Session
<1> DEFINE leader == IF Running(s) THEN "zombie" ELSE s.leader
           status == IF Running(s) THEN -9 ELSE s.status
<1>2. leader \in {"none", "running", "zombie", "reaped"} /\ status \in Int
  BY <1>1
<1>3. AfterKill(s) = [s EXCEPT !.members = 0, !.leader = leader, !.status = status]
  BY DEF AfterKill
<1> HIDE DEF leader, status
<1>4. AfterKill(s) \in Session
  BY <1>1, <1>2, <1>3 DEF Session
<1>5. /\ AfterKill(s).members = 0 /\ AfterKill(s).rooted = s.rooted
      /\ AfterKill(s).left = s.left /\ AfterKill(s).leader = leader
  BY <1>3 DEF Session
<1> QED BY <1>4, <1>5 DEF leader

\* A payload that verifies is, word for word, what its trusted issuer signed.
LEMMA VerifiedIsSigned ==
    ASSUME NEW p \in Payload, NEW trusted \in Trust, Verifies(p, trusted)
    PROVE  /\ p.issuer \in Issuer /\ p.timeout \in Timeout
           /\ trusted[p.issuer] # NoKey
           /\ p = EncodeProgram(p.issuer, p.timeout, trusted[p.issuer])
BY DEF Payload, Verifies, Decodes, IsProgram, EncodeProgram

\* What encode_program builds from checked arguments is a payload.
LEMMA ProgramIsPayload ==
    ASSUME NEW r \in Write, IsProgram(Program(r))
    PROVE  Program(r) \in Payload
<1>1. r.issuer \in Issuer /\ r.timeout \in Timeout /\ r.key \in Key
  BY DEF Write, IsProgram, Program, EncodeProgram
<1> QED BY <1>1 DEF Program, EncodeProgram, Payload, Signature, NoSignature

\* A program verifies for those who trust its issuer with the key it was
\* signed with.
LEMMA SignedVerifies ==
    ASSUME NEW r \in Write, IsProgram(Program(r)), NEW trusted \in Trust
    PROVE  /\ Program(r) \in Payload
           /\ Decodes(Program(r))
           /\ Verifies(Program(r), trusted) <=> trusted[r.issuer] = r.key
<1>1. r.issuer \in Issuer /\ r.timeout \in Timeout /\ r.key \in Key
  BY DEF Write, IsProgram, Program, EncodeProgram
<1>2. Program(r) \in Payload
  BY ProgramIsPayload
<1>3. Decodes(Program(r))
  BY <1>1 DEF Program, EncodeProgram, Decodes, IsProgram, Signature
<1>4. Verifies(Program(r), trusted) <=> trusted[r.issuer] = r.key
  BY <1>1, <1>3, PayloadAssumption DEF Verifies, Program, EncodeProgram
<1> QED BY <1>2, <1>3, <1>4

-----------------------------------------------------------------------------
(* Managed commands *)

\* A field of a command that can be decoded, on its way through CommandOf,
\* Field and back.
Decoded(value) == IF Optional(value) THEN "null" ELSE value

LEMMA FieldRoundTrip ==
    ASSUME NEW value, Optional(value) \/ IsString(value)
    PROVE  /\ Optional(Field(Decoded(value))) \/ IsString(Field(Decoded(value)))
           /\ Decoded(Field(Decoded(value))) = Decoded(value)
           /\ value # "null" => Field(Decoded(value)) = value
<1>1. IsString(value) => value \notin {"absent", "null"}
  BY PayloadAssumption DEF IsString
<1> QED BY <1>1 DEF Field, Decoded, Optional

\* What a payload of a managed command goes through and comes back from.
LEMMA CommandRoundTrip ==
    ASSUME NEW p \in Payload, DecodesCommand(p)
    PROVE  LET c == CommandOf(p)
           IN  /\ DecodesCommand(EncodeCommand(c)) /\ CommandOf(EncodeCommand(c)) = c
               /\ ReadsJson(ToJson(c)) /\ FromJson(ToJson(c)) = c
               /\ \A key \in Key : VerifiesCommand(EncodeCommand(c), key) <=> VerifiesCommand(p, key)
               /\ "null" \notin {p.label, p.issuer} => EncodeCommand(c) = p
               /\ ~Decodes(p)
<1> DEFINE c == CommandOf(p)
           e == EncodeCommand(c)
           j == ToJson(c)
<1>1. /\ c.argv = p.argv /\ c.version = p.v /\ c.signature = p.sig
      /\ c.label = Decoded(p.label) /\ c.issuer = Decoded(p.issuer)
  BY DEF CommandOf, Decoded
<1>2. /\ p.canonical /\ ~p.extra /\ p.kind = "absent" /\ p.script = "absent" /\ p.timeout = -1
      /\ p.argv = "good" /\ p.sig \in Signature /\ p.v \in {"one", "like one"}
      /\ Optional(p.label) \/ IsString(p.label)
      /\ Optional(p.issuer) \/ IsString(p.issuer)
  BY DEF DecodesCommand
<1>3. /\ e.v = p.v /\ e.kind = "absent" /\ e.script = "absent" /\ e.timeout = -1
      /\ e.argv = p.argv /\ e.sig = p.sig /\ e.extra = FALSE /\ e.canonical = TRUE
      /\ e.label = Field(Decoded(p.label)) /\ e.issuer = Field(Decoded(p.issuer))
  BY <1>1 DEF EncodeCommand
<1>4. /\ j.v = p.v /\ j.argv = p.argv /\ j.sig = p.sig
      /\ j.label = Field(Decoded(p.label)) /\ j.issuer = Field(Decoded(p.issuer))
  BY <1>1 DEF ToJson
<1>f. \A value \in {p.label, p.issuer} :
         /\ Optional(Field(Decoded(value))) \/ IsString(Field(Decoded(value)))
         /\ Decoded(Field(Decoded(value))) = Decoded(value)
         /\ value # "null" => Field(Decoded(value)) = value
  BY <1>2, FieldRoundTrip
<1> HIDE DEF c, e, j
<1>5. DecodesCommand(e)
  <2>1. \A f \in {e.label, e.issuer} : Optional(f) \/ IsString(f)
    BY <1>3, <1>f
  <2> QED BY <1>2, <1>3, <2>1 DEF DecodesCommand
<1>6. CommandOf(e) = c
  <2>1. Decoded(e.label) = Decoded(p.label) /\ Decoded(e.issuer) = Decoded(p.issuer)
    BY <1>3, <1>f
  <2> QED BY <1>3, <2>1 DEF CommandOf, Decoded, c
<1>7. ReadsJson(j)
  BY <1>2, <1>4, <1>f DEF ReadsJson
<1>8. FromJson(j) = c
  <2>1. Decoded(j.label) = Decoded(p.label) /\ Decoded(j.issuer) = Decoded(p.issuer)
    BY <1>4, <1>f
  <2> QED BY <1>4, <2>1 DEF FromJson, CommandOf, Decoded, c
<1>9. \A key \in Key : VerifiesCommand(e, key) <=> VerifiesCommand(p, key)
  BY <1>3, <1>5 DEF VerifiesCommand
<1>10. ASSUME "null" \notin {p.label, p.issuer} PROVE e = p
  <2>1. e.label = p.label /\ e.issuer = p.issuer
    BY <1>3, <1>10, <1>f
  <2>2. p.extra = FALSE /\ p.canonical = TRUE
    BY <1>2 DEF Payload
  <2>3. p = [v |-> p.v, kind |-> p.kind, script |-> p.script, issuer |-> p.issuer,
             label |-> p.label, timeout |-> p.timeout, argv |-> p.argv, sig |-> p.sig,
             extra |-> p.extra, canonical |-> p.canonical]
    BY DEF Payload
  <2>4. e = [v |-> e.v, kind |-> e.kind, script |-> e.script, issuer |-> e.issuer,
             label |-> e.label, timeout |-> e.timeout, argv |-> e.argv, sig |-> e.sig,
             extra |-> e.extra, canonical |-> e.canonical]
    BY DEF EncodeCommand, e
  <2> QED BY <1>2, <1>3, <2>1, <2>2, <2>3, <2>4
<1>11. ~Decodes(p)
  BY <1>2 DEF Decodes
<1> QED BY <1>5, <1>6, <1>7, <1>8, <1>9, <1>10, <1>11 DEF c, e, j

-----------------------------------------------------------------------------
(* The initial state *)

\* The command has not been called and no card lies on the reader.
THEOREM InitInv == ShellInit => IInv
<1> SUFFICES ASSUME ShellInit PROVE IInv
  OBVIOUS
<1> USE ShellAssumption DEF ShellInit
<1>0. NoSession \in Session
  BY DEF NoSession, Session
<1>a. card \in Card \cup {Blank} /\ author \in Write \cup {NoRequest}
  OBVIOUS
<1>b. recycled \in BOOLEAN /\ harmed \in BOOLEAN /\ window \in BOOLEAN
  OBVIOUS
<1>c. code \in -1 .. 255
  OBVIOUS
<1>1. ShellTypeOK
  BY <1>0, <1>a, <1>b, <1>c DEF ShellTypeOK, Over
<1>2. session.leader = "none"
  BY DEF NoSession
<1>3. Signed /\ Strangers
  BY DEF Signed, Strangers
<1>4. Prelude /\ Execution
  BY <1>2 DEF Prelude, Execution, Spawned
<1>5. OnlyTrustedRuns /\ NothingOutlives /\ ZeroMeansDone
  BY <1>2 DEF OnlyTrustedRuns, NothingOutlives, ZeroMeansDone, Spawned
<1>6. Flags /\ Data
  BY <1>1 DEF Flags, Data, ShellTypeOK
<1> QED BY <1>6, <1>3, <1>4, <1>5 DEF IInv

-----------------------------------------------------------------------------
(* What the program may do to its session *)

\* A session that has begun, and its next one.
Evolution(s) ==
    /\ s \in Session
    /\ session.leader # "none"
    /\ s.leader = session.leader \/ (session.leader = "running" /\ s.leader = "zombie")
    /\ s.left <= session.left
    /\ session.members = 0 /\ ~Running(session) => s.members = 0
    /\ "leader" \in session.rooted => "leader" \in s.rooted
    /\ session.leader # "running" /\ session.members = 0 /\ session.rooted = {}
          => s.rooted = {}

\* Forks, exits, sudo and the clock change a session that has begun, and
\* nothing but the session.
LEMMA ProgramEvolves ==
    ASSUME ShellTypeOK, Execution, Prelude, ProgramStep \/ Tick
    PROVE  Evolution(session') /\ Evolves(session')
<1>1. session \in Session /\ MaxMembers \in Nat
  BY ShellAssumption DEF ShellTypeOK
<1>2. ASSUME pc \notin Over, session.leader = "none"
      PROVE  session.members = 0 /\ session.rooted = {}
  <2>1. pc \in {"open", "card", "execute"}
    BY <1>2 DEF ShellTypeOK, Over, Execution, Spawned
  <2>2. session = NoSession
    BY <2>1 DEF Prelude
  <2> QED BY <2>2 DEF NoSession
<1>3. ASSUME NEW s, Evolves(s), Evolution(s)
      PROVE  Evolution(session') /\ Evolves(session')
  BY <1>3 DEF Evolves
<1>4. ASSUME NEW status \in {-9, 0, 3}, LeaderExits(status)
      PROVE  Evolution(session') /\ Evolves(session')
  <2> DEFINE s == [session EXCEPT !.leader = "zombie", !.status = status]
  <2>1. Evolves(s) /\ session.leader = "running"
    BY <1>4 DEF LeaderExits
  <2>2. status \in Int
    OBVIOUS
  <2>3. s \in Session
    BY <1>1, <2>2 DEF Session
  <2>4. s.leader = "zombie" /\ s.left = session.left /\ s.members = session.members
        /\ s.rooted = session.rooted /\ session.left \in Nat
    BY <1>1 DEF Session
  <2>5. Evolution(s)
    <3> HIDE DEF s
    <3> QED BY <2>1, <2>3, <2>4 DEF Evolution
  <2> QED BY <2>1, <2>5, <1>3
<1>5. CASE Fork
  <2> DEFINE s == [session EXCEPT !.members = @ + 1]
  <2>1. /\ Evolves(s) /\ session.members < MaxMembers
        /\ Running(session) \/ session.members > 0
    BY <1>5 DEF Fork
  <2>2. s \in Session
    BY <1>1, <2>1 DEF Session
  <2>3. session.leader # "none"
    BY <1>1, <1>2, <2>1 DEF Evolves, Running, Session
  <2> QED BY <2>1, <2>2, <2>3, <1>1, <1>3 DEF Evolution, Session
<1>6. CASE MemberLeaves
  <2> DEFINE s == [session EXCEPT !.members = @ - 1]
  <2>1. Evolves(s) /\ session.members > 0
    BY <1>6 DEF MemberLeaves
  <2>2. s \in Session
    BY <1>1, <2>1 DEF Session
  <2>3. session.leader # "none"
    BY <1>1, <1>2, <2>1 DEF Evolves, Session
  <2> QED BY <2>1, <2>2, <2>3, <1>1, <1>3 DEF Evolution, Session
<1>7. CASE RootForks
  <2> DEFINE s == [session EXCEPT !.rooted = @ \cup {"member"}]
  <2>1. Evolves(s) /\ session.leader = "running"
    BY <1>7 DEF RootForks
  <2>2. s \in Session
    BY <1>1 DEF Session
  <2> QED BY <2>1, <2>2, <1>1, <1>3 DEF Evolution, Session
<1>8. CASE RootMemberEnds
  <2> DEFINE s == [session EXCEPT !.rooted = @ \ {"member"}]
  <2>1. Evolves(s) /\ session.rooted # {}
    BY <1>8 DEF RootMemberEnds
  <2>2. s \in Session
    BY <1>1 DEF Session
  <2>3. session.leader # "none"
    BY <1>2, <2>1 DEF Evolves
  <2> QED BY <2>1, <2>2, <2>3, <1>1, <1>3 DEF Evolution, Session
<1>9. ASSUME NEW who \in {"leader", "member"}, BecomesRoot(who)
      PROVE  Evolution(session') /\ Evolves(session')
  <2> DEFINE s == [session EXCEPT !.rooted = @ \cup {who},
                                  !.members = IF who = "member" THEN @ - 1 ELSE @]
  <2>1. /\ Evolves(s)
        /\ IF who = "leader" THEN session.leader = "running" ELSE session.members > 0
    BY <1>9 DEF BecomesRoot
  <2>a. session.members \in 0 .. MaxMembers /\ session.rooted \in SUBSET {"leader", "member"}
    BY <1>1 DEF Session
  <2>b. (IF who = "member" THEN session.members - 1 ELSE session.members) \in 0 .. MaxMembers
    BY <1>1, <2>1, <2>a
  <2>c. session.rooted \cup {who} \in SUBSET {"leader", "member"}
    BY <2>a
  <2>2. s \in Session
    BY <1>1, <2>b, <2>c DEF Session
  <2>d. /\ s.leader = session.leader /\ s.left = session.left /\ session.left \in Nat
        /\ s.rooted = session.rooted \cup {who}
        /\ s.members = IF who = "member" THEN session.members - 1 ELSE session.members
    BY <1>1 DEF Session
  <2>3. session.leader # "none"
    BY <1>1, <1>2, <2>1 DEF Evolves, Session
  <2>e. session.members = 0 /\ ~Running(session) => s.members = 0
    BY <2>1, <2>a, <2>d DEF Running
  <2>f. Evolution(s)
    <3>1. /\ session.leader # "running" /\ session.members = 0 /\ session.rooted = {}
                => s.rooted = {}
          /\ "leader" \in session.rooted => "leader" \in s.rooted
      BY <2>1, <2>a, <2>d
    <3>2. s.left <= session.left
      BY <2>d
    <3> HIDE DEF s
    <3> QED BY <2>2, <2>3, <2>d, <2>e, <3>1, <3>2 DEF Evolution
  <2> QED BY <2>1, <2>f, <1>3
<1>10. CASE Tick
  <2> DEFINE s == [session EXCEPT !.left = @ - 1]
  <2>1. Evolves(s) /\ session.left > 0 /\ pc = "wait"
    BY <1>10 DEF Tick
  <2>2. s \in Session
    BY <1>1, <2>1 DEF Session
  <2>3. session.leader # "none"
    BY <2>1 DEF Execution, Spawned
  <2> QED BY <2>1, <2>2, <2>3, <1>1, <1>3 DEF Evolution, Session
<1> QED BY <1>4, <1>5, <1>6, <1>7, <1>8, <1>9, <1>10 DEF ProgramStep

-----------------------------------------------------------------------------
(* The steps, one by one: each keeps every part of IInv *)

LEMMA OpenTransportKeeps ==
    ASSUME IInv, OpenTransport
    PROVE  IInv'
<1> USE DEF IInv, OpenTransport, command, world, result
<1>1. Flags'
  <2>1. window' = TRUE /\ recycled' = recycled /\ harmed' = harmed
    OBVIOUS
  <2> QED BY <2>1 DEF Flags
<1>2. Data'
  BY DEF Data, Over
<1>3. Signed'
  BY DEF Signed
<1>4. Prelude'
  BY DEF Prelude
<1>5. Execution'
  BY DEF Execution, Spawned, Prelude
<1>6. Strangers'
  BY DEF Strangers, Execution, Prelude
<1>7. OnlyTrustedRuns'
  BY DEF OnlyTrustedRuns, Spawned, Execution, Prelude
<1>8. NothingOutlives'
  BY DEF NothingOutlives, Spawned, Execution
<1>9. ZeroMeansDone'
  BY DEF ZeroMeansDone, Spawned, Execution, Prelude
<1> QED BY <1>1, <1>2, <1>3, <1>4, <1>5, <1>6, <1>7, <1>8, <1>9

LEMMA TransportRefusedKeeps ==
    ASSUME IInv, TransportRefused
    PROVE  IInv'
<1> USE DEF IInv, TransportRefused, command, world, result, Fails
<1>1. Flags'
  <2>1. window' = window /\ recycled' = recycled /\ harmed' = harmed
    OBVIOUS
  <2> QED BY <2>1 DEF Flags
<1>2. Data'
  <2>1. code' \in -1 .. 255
    BY CodeRange DEF Data
  <2>2. outcome' \in {"none", "refused", "failed", "written", "inspected",
                   "exited", "timed out", "interrupted"}
    BY DEF Data
  <2>3. pc' \in Over \cup {"open", "card", "execute", "try", "wait", "kill", "reap"}
    BY DEF Data, Over
  <2>4. /\ card' \in Card \cup {Blank} /\ author' \in Write \cup {NoRequest}
        /\ req' \in Write \cup Reading \cup {NoRequest} /\ payload' \in Payload \cup {Blank}
        /\ session' \in Session
    BY DEF Data
  <2> QED BY <2>1, <2>2, <2>3, <2>4 DEF Data
<1>3. Signed'
  BY DEF Signed
<1>4. Prelude'
  BY DEF Prelude
<1>5. Execution'
  BY DEF Execution, Spawned, Prelude
<1>6. Strangers'
  BY DEF Strangers, Execution, Prelude
<1>7. OnlyTrustedRuns'
  BY DEF OnlyTrustedRuns, Spawned, Execution, Prelude
<1>8. NothingOutlives'
  BY DEF NothingOutlives, Spawned, Execution
<1>9. ZeroMeansDone'
  <2>1. code' = 1
    OBVIOUS
  <2> QED BY <2>1 DEF ZeroMeansDone
<1> QED BY <1>1, <1>2, <1>3, <1>4, <1>5, <1>6, <1>7, <1>8, <1>9

LEMMA WriteStopsKeeps ==
    ASSUME IInv, WriteStops
    PROVE  IInv'
<1> USE DEF IInv, WriteStops, command, world, result, Fails
<1>1. Flags'
  <2>1. window' = FALSE /\ recycled' = recycled /\ harmed' = harmed
    OBVIOUS
  <2> QED BY <2>1 DEF Flags
<1>2. Data'
  <2>1. code' \in -1 .. 255
    BY CodeRange DEF Data
  <2>2. outcome' \in {"none", "refused", "failed", "written", "inspected",
                   "exited", "timed out", "interrupted"}
    BY DEF Data
  <2>3. pc' \in Over \cup {"open", "card", "execute", "try", "wait", "kill", "reap"}
    BY DEF Data, Over
  <2>4. /\ card' \in Card \cup {Blank} /\ author' \in Write \cup {NoRequest}
        /\ req' \in Write \cup Reading \cup {NoRequest} /\ payload' \in Payload \cup {Blank}
        /\ session' \in Session
    BY DEF Data
  <2> QED BY <2>1, <2>2, <2>3, <2>4 DEF Data
<1>3. Signed'
  BY DEF Signed
<1>4. Prelude'
  BY DEF Prelude
<1>5. Execution'
  BY DEF Execution, Spawned, Prelude
<1>6. Strangers'
  BY DEF Strangers, Execution, Prelude
<1>7. OnlyTrustedRuns'
  BY DEF OnlyTrustedRuns, Spawned, Execution, Prelude
<1>8. NothingOutlives'
  BY DEF NothingOutlives, Spawned, Execution
<1>9. ZeroMeansDone'
  <2>1. code' = 1
    OBVIOUS
  <2> QED BY <2>1 DEF ZeroMeansDone
<1> QED BY <1>1, <1>2, <1>3, <1>4, <1>5, <1>6, <1>7, <1>8, <1>9

LEMMA ReadFailsKeeps ==
    ASSUME IInv, ReadFails
    PROVE  IInv'
<1> USE DEF IInv, ReadFails, command, world, result, Fails
<1>1. Flags'
  <2>1. window' = FALSE /\ recycled' = recycled /\ harmed' = harmed
    OBVIOUS
  <2> QED BY <2>1 DEF Flags
<1>2. Data'
  <2>1. code' \in -1 .. 255
    BY CodeRange DEF Data
  <2>2. outcome' \in {"none", "refused", "failed", "written", "inspected",
                   "exited", "timed out", "interrupted"}
    BY DEF Data
  <2>3. pc' \in Over \cup {"open", "card", "execute", "try", "wait", "kill", "reap"}
    BY DEF Data, Over
  <2>4. /\ card' \in Card \cup {Blank} /\ author' \in Write \cup {NoRequest}
        /\ req' \in Write \cup Reading \cup {NoRequest} /\ payload' \in Payload \cup {Blank}
        /\ session' \in Session
    BY DEF Data
  <2> QED BY <2>1, <2>2, <2>3, <2>4 DEF Data
<1>3. Signed'
  BY DEF Signed
<1>4. Prelude'
  BY DEF Prelude
<1>5. Execution'
  BY DEF Execution, Spawned, Prelude
<1>6. Strangers'
  BY DEF Strangers, Execution, Prelude
<1>7. OnlyTrustedRuns'
  BY DEF OnlyTrustedRuns, Spawned, Execution, Prelude
<1>8. NothingOutlives'
  BY DEF NothingOutlives, Spawned, Execution
<1>9. ZeroMeansDone'
  <2>1. code' = 1
    OBVIOUS
  <2> QED BY <2>1 DEF ZeroMeansDone
<1> QED BY <1>1, <1>2, <1>3, <1>4, <1>5, <1>6, <1>7, <1>8, <1>9

LEMMA InspectKeeps ==
    ASSUME IInv, Inspect
    PROVE  IInv'
<1> USE DEF IInv, Inspect, command, world, result, Fails
<1>1. Flags'
  <2>1. window' = window /\ recycled' = recycled /\ harmed' = harmed
    OBVIOUS
  <2> QED BY <2>1 DEF Flags
<1>2. Data'
  <2>1. code' \in -1 .. 255
    BY CodeRange DEF Data
  <2>2. outcome' \in {"none", "refused", "failed", "written", "inspected",
                   "exited", "timed out", "interrupted"}
    BY DEF Data
  <2>3. pc' \in Over \cup {"open", "card", "execute", "try", "wait", "kill", "reap"}
    BY DEF Data, Over
  <2>4. /\ card' \in Card \cup {Blank} /\ author' \in Write \cup {NoRequest}
        /\ req' \in Write \cup Reading \cup {NoRequest} /\ payload' \in Payload \cup {Blank}
        /\ session' \in Session
    BY DEF Data
  <2> QED BY <2>1, <2>2, <2>3, <2>4 DEF Data
<1>3. Signed'
  BY DEF Signed
<1>4. Prelude'
  BY DEF Prelude
<1>5. Execution'
  BY DEF Execution, Spawned, Prelude
<1>6. Strangers'
  BY DEF Strangers, Execution, Prelude
<1>7. OnlyTrustedRuns'
  BY DEF OnlyTrustedRuns, Spawned, Execution, Prelude
<1>8. NothingOutlives'
  BY DEF NothingOutlives, Spawned, Execution
<1>9. ZeroMeansDone'
  BY DEF ZeroMeansDone, Spawned, Execution, Prelude
<1> QED BY <1>1, <1>2, <1>3, <1>4, <1>5, <1>6, <1>7, <1>8, <1>9

LEMMA ExecuteRefusedKeeps ==
    ASSUME IInv, ExecuteRefused
    PROVE  IInv'
<1> USE DEF IInv, ExecuteRefused, command, world, result, Fails
<1>1. Flags'
  <2>1. window' = window /\ recycled' = recycled /\ harmed' = harmed
    OBVIOUS
  <2> QED BY <2>1 DEF Flags
<1>2. Data'
  <2>1. code' \in -1 .. 255
    BY CodeRange DEF Data
  <2>2. outcome' \in {"none", "refused", "failed", "written", "inspected",
                   "exited", "timed out", "interrupted"}
    BY DEF Data
  <2>3. pc' \in Over \cup {"open", "card", "execute", "try", "wait", "kill", "reap"}
    BY DEF Data, Over
  <2>4. /\ card' \in Card \cup {Blank} /\ author' \in Write \cup {NoRequest}
        /\ req' \in Write \cup Reading \cup {NoRequest} /\ payload' \in Payload \cup {Blank}
        /\ session' \in Session
    BY DEF Data
  <2> QED BY <2>1, <2>2, <2>3, <2>4 DEF Data
<1>3. Signed'
  BY DEF Signed
<1>4. Prelude'
  BY DEF Prelude
<1>5. Execution'
  BY DEF Execution, Spawned, Prelude
<1>6. Strangers'
  BY DEF Strangers, Execution, Prelude
<1>7. OnlyTrustedRuns'
  BY DEF OnlyTrustedRuns, Spawned, Execution, Prelude
<1>8. NothingOutlives'
  BY DEF NothingOutlives, Spawned, Execution
<1>9. ZeroMeansDone'
  <2>1. code' = 1
    OBVIOUS
  <2> QED BY <2>1 DEF ZeroMeansDone
<1> QED BY <1>1, <1>2, <1>3, <1>4, <1>5, <1>6, <1>7, <1>8, <1>9

LEMMA EnterTryKeeps ==
    ASSUME IInv, EnterTry
    PROVE  IInv'
<1> USE DEF IInv, EnterTry, command, world, result
<1>1. Flags'
  <2>1. window' = window /\ recycled' = recycled /\ harmed' = harmed
    OBVIOUS
  <2> QED BY <2>1 DEF Flags
<1>2. Data'
  BY DEF Data, Over
<1>3. Signed'
  BY DEF Signed
<1>4. Prelude'
  BY DEF Prelude
<1>5. Execution'
  BY DEF Execution, Spawned, Prelude
<1>6. Strangers'
  BY DEF Strangers, Execution, Prelude
<1>7. OnlyTrustedRuns'
  BY DEF OnlyTrustedRuns, Spawned, Execution, Prelude
<1>8. NothingOutlives'
  BY DEF NothingOutlives, Spawned, Execution
<1>9. ZeroMeansDone'
  BY DEF ZeroMeansDone, Spawned, Execution, Prelude
<1> QED BY <1>1, <1>2, <1>3, <1>4, <1>5, <1>6, <1>7, <1>8, <1>9

LEMMA TimedOutKeeps ==
    ASSUME IInv, TimedOut
    PROVE  IInv'
<1> USE DEF IInv, TimedOut, command, world, result
<1>1. Flags'
  <2>1. window' = window /\ recycled' = recycled /\ harmed' = harmed
    OBVIOUS
  <2> QED BY <2>1 DEF Flags
<1>2. Data'
  BY DEF Data, Over
<1>3. Signed'
  BY DEF Signed
<1>4. Prelude'
  BY DEF Prelude
<1>5. Execution'
  BY DEF Execution, Spawned, Prelude
<1>6. Strangers'
  BY DEF Strangers, Execution, Prelude
<1>7. OnlyTrustedRuns'
  BY DEF OnlyTrustedRuns, Spawned, Execution, Prelude
<1>8. NothingOutlives'
  BY DEF NothingOutlives, Spawned, Execution
<1>9. ZeroMeansDone'
  BY DEF ZeroMeansDone, Spawned, Execution, Prelude
<1> QED BY <1>1, <1>2, <1>3, <1>4, <1>5, <1>6, <1>7, <1>8, <1>9

LEMMA InterruptKeeps ==
    ASSUME IInv, Interrupt
    PROVE  IInv'
<1> USE DEF IInv, Interrupt, command, world, result
<1>0. /\ session' \in Session
      /\ session'.members = session.members /\ session'.left = session.left
      /\ session'.leader = session.leader \/ session'.leader = "reaped"
      /\ session.leader = "none" <=> session'.leader = "none"
      /\ session'.rooted \subseteq session.rooted
  <2>1. session \in Session
    BY DEF Data
  <2>2. CASE session' = session
    BY <2>1, <2>2
  <2>3. CASE session.leader = "zombie" /\ session' = Reaped(session)
    BY <2>1, <2>3 DEF Reaped, Session
  <2> QED BY <2>2, <2>3
<1>1. Flags'
  <2>1. window' = window /\ recycled' = recycled /\ harmed' = harmed
    OBVIOUS
  <2> QED BY <2>1 DEF Flags
<1>2. Data'
  BY <1>0 DEF Data, Over
<1>3. Signed'
  BY DEF Signed
<1>4. Prelude'
  BY DEF Prelude
<1>5. Execution'
  BY <1>0 DEF Execution, Spawned, Prelude
<1>6. Strangers'
  BY DEF Strangers, Execution, Prelude
<1>7. OnlyTrustedRuns'
  BY <1>0 DEF OnlyTrustedRuns, Spawned, Execution, Prelude
<1>8. NothingOutlives'
  BY DEF NothingOutlives, Spawned, Execution
<1>9. ZeroMeansDone'
  BY DEF ZeroMeansDone, Spawned, Execution, Prelude
<1> QED BY <1>1, <1>2, <1>3, <1>4, <1>5, <1>6, <1>7, <1>8, <1>9

LEMMA KilledKeeps ==
    ASSUME IInv, Killed
    PROVE  IInv'
<1> USE DEF IInv, Killed, command, world, result, Over
<1>1. Flags'
  <2>1. window' = FALSE /\ recycled' = recycled /\ harmed' = harmed
    OBVIOUS
  <2> QED BY <2>1 DEF Flags
<1>2. Data'
  BY DEF Data, Over
<1>3. Signed'
  BY DEF Signed
<1>4. Prelude'
  BY DEF Prelude
<1>5. Execution'
  BY DEF Execution, Spawned, Prelude
<1>6. Strangers'
  BY DEF Strangers, Execution, Prelude
<1>7. OnlyTrustedRuns'
  BY DEF OnlyTrustedRuns, Spawned, Execution, Prelude
<1>8. NothingOutlives'
  BY DEF NothingOutlives, Spawned, Execution
<1>9. ZeroMeansDone'
  BY DEF ZeroMeansDone, Spawned, Execution, Prelude
<1> QED BY <1>1, <1>2, <1>3, <1>4, <1>5, <1>6, <1>7, <1>8, <1>9

LEMMA RecycleKeeps ==
    ASSUME IInv, Recycle
    PROVE  IInv'
<1> USE DEF IInv, Recycle, command, world, result
<1>1. Flags'
  <2>1. window' = window /\ recycled' = TRUE /\ harmed' = harmed
    OBVIOUS
  <2> QED BY <2>1 DEF Flags
<1>2. Data'
  BY DEF Data, Over
<1>3. Signed'
  BY DEF Signed
<1>4. Prelude'
  BY DEF Prelude
<1>5. Execution'
  BY DEF Execution, Spawned, Prelude
<1>6. Strangers'
  BY DEF Strangers, Execution, Prelude
<1>7. OnlyTrustedRuns'
  BY DEF OnlyTrustedRuns, Spawned, Execution, Prelude
<1>8. NothingOutlives'
  BY DEF NothingOutlives, Spawned, Execution
<1>9. ZeroMeansDone'
  BY DEF ZeroMeansDone, Spawned, Execution, Prelude
<1> QED BY <1>1, <1>2, <1>3, <1>4, <1>5, <1>6, <1>7, <1>8, <1>9

LEMMA KillRefusedKeeps ==
    ASSUME IInv, KillRefused
    PROVE  IInv'
<1> USE DEF IInv, KillRefused, command, world, result, Fails, Signalled
<1>1. Flags'
  <2>1. window' = window /\ recycled' = recycled /\ harmed' = harmed
    OBVIOUS
  <2> QED BY <2>1 DEF Flags
<1>2. Data'
  <2>1. code' \in -1 .. 255
    BY CodeRange DEF Data
  <2>2. outcome' \in {"none", "refused", "failed", "written", "inspected",
                   "exited", "timed out", "interrupted"}
    BY DEF Data
  <2>3. pc' \in Over \cup {"open", "card", "execute", "try", "wait", "kill", "reap"}
    BY DEF Data, Over
  <2>4. /\ card' \in Card \cup {Blank} /\ author' \in Write \cup {NoRequest}
        /\ req' \in Write \cup Reading \cup {NoRequest} /\ payload' \in Payload \cup {Blank}
        /\ session' \in Session
    BY DEF Data
  <2> QED BY <2>1, <2>2, <2>3, <2>4 DEF Data
<1>3. Signed'
  BY DEF Signed
<1>4. Prelude'
  BY DEF Prelude
<1>5. Execution'
  BY DEF Execution, Spawned, Prelude
<1>6. Strangers'
  BY DEF Strangers
<1>7. OnlyTrustedRuns'
  BY DEF OnlyTrustedRuns, Spawned, Execution, Prelude
<1>8. NothingOutlives'
  <2>1. /\ session.members \in 0 .. MaxMembers /\ MaxMembers \in Nat
        /\ session.leader \in {"none", "running", "zombie", "reaped"}
    BY ShellAssumption DEF Data, Session
  <2>2. session.members = 0
    BY <2>1
  <2> QED BY <2>1, <2>2 DEF NothingOutlives, Spawned
<1>9. ZeroMeansDone'
  <2>1. code' = 1
    OBVIOUS
  <2> QED BY <2>1 DEF ZeroMeansDone
<1> QED BY <1>1, <1>2, <1>3, <1>4, <1>5, <1>6, <1>7, <1>8, <1>9

LEMMA KillFindsNoGroupKeeps ==
    ASSUME IInv, KillFindsNoGroup
    PROVE  IInv'
<1> USE DEF IInv, KillFindsNoGroup, command, world, result, Signalled
<1>1. Flags'
  <2>1. window' = window /\ recycled' = recycled /\ harmed' = (harmed \/ recycled)
    OBVIOUS
  <2> QED BY <2>1 DEF Flags
<1>2. Data'
  BY DEF Data, Over
<1>3. Signed'
  BY DEF Signed
<1>4. Prelude'
  BY DEF Prelude
<1>5. Execution'
  <2>1. /\ session.members \in 0 .. MaxMembers /\ MaxMembers \in Nat
        /\ session.leader \in {"none", "running", "zombie", "reaped"}
    BY ShellAssumption DEF Data, Session
  <2>2. session.members = 0
    BY <2>1
  <2> QED BY <2>1, <2>2 DEF Execution, Spawned, Prelude
<1>6. Strangers'
  BY DEF Strangers, Execution, Prelude
<1>7. OnlyTrustedRuns'
  BY DEF OnlyTrustedRuns, Spawned, Execution, Prelude
<1>8. NothingOutlives'
  BY DEF NothingOutlives, Spawned, Execution
<1>9. ZeroMeansDone'
  BY DEF ZeroMeansDone, Spawned, Execution, Prelude
<1> QED BY <1>1, <1>2, <1>3, <1>4, <1>5, <1>6, <1>7, <1>8, <1>9

LEMMA AgainKeeps ==
    ASSUME IInv, Again
    PROVE  IInv'
<1> USE DEF IInv, Again, command, world, result
<1>1. Flags'
  <2>1. window' = window /\ recycled' = FALSE /\ harmed' = FALSE
    OBVIOUS
  <2> QED BY <2>1 DEF Flags
<1>2. Data'
  <2>0. session' \in Session
    BY NoSessionIsOne
  <2>1. code' \in -1 .. 255
    BY CodeRange DEF Data
  <2>2. outcome' \in {"none", "refused", "failed", "written", "inspected",
                   "exited", "timed out", "interrupted"}
    BY DEF Data
  <2>3. pc' \in Over \cup {"open", "card", "execute", "try", "wait", "kill", "reap"}
    BY DEF Data, Over
  <2>4. /\ card' \in Card \cup {Blank} /\ author' \in Write \cup {NoRequest}
        /\ req' \in Write \cup Reading \cup {NoRequest} /\ payload' \in Payload \cup {Blank}
        /\ session' \in Session
    BY <2>0 DEF Data
  <2> QED BY <2>1, <2>2, <2>3, <2>4 DEF Data
<1>3. Signed'
  BY DEF Signed
<1>4. Prelude'
  BY DEF Prelude
<1>5. Execution'
  <2>1. session'.leader = "none" /\ session' = NoSession
    BY DEF NoSession
  <2> QED BY <2>1 DEF Execution, Spawned
<1>6. Strangers'
  BY DEF Strangers, Execution, Prelude
<1>7. OnlyTrustedRuns'
  <2>1. session'.leader = "none" /\ session' = NoSession
    BY DEF NoSession
  <2> QED BY <2>1 DEF OnlyTrustedRuns, Spawned
<1>8. NothingOutlives'
  BY DEF NothingOutlives, Spawned, Execution
<1>9. ZeroMeansDone'
  BY DEF ZeroMeansDone, Spawned, Execution, Prelude
<1> QED BY <1>1, <1>2, <1>3, <1>4, <1>5, <1>6, <1>7, <1>8, <1>9

LEMMA ReadCardKeeps ==
    ASSUME IInv, ReadCard
    PROVE  IInv'
<1> USE DEF IInv, ReadCard, command, world, result
<1>1. Flags'
  <2>1. window' = FALSE /\ recycled' = recycled /\ harmed' = harmed
    OBVIOUS
  <2> QED BY <2>1 DEF Flags
<1>2. Data'
  <2>0. req \in Reading /\ card.payload \in Payload
    BY DEF Prelude, Readable, Data, Card, Write
  <2>1. code' \in -1 .. 255
    BY CodeRange DEF Data
  <2>2. outcome' \in {"none", "refused", "failed", "written", "inspected",
                   "exited", "timed out", "interrupted"}
    BY DEF Data
  <2>3. pc' \in Over \cup {"open", "card", "execute", "try", "wait", "kill", "reap"}
    BY DEF Data, Over
  <2>4. /\ card' \in Card \cup {Blank} /\ author' \in Write \cup {NoRequest}
        /\ req' \in Write \cup Reading \cup {NoRequest} /\ payload' \in Payload \cup {Blank}
        /\ session' \in Session
    BY <2>0 DEF Data
  <2> QED BY <2>1, <2>2, <2>3, <2>4 DEF Data
<1>3. Signed'
  BY DEF Signed
<1>4. Prelude'
  <2>0. req \in Reading /\ card.payload \in Payload
    BY DEF Prelude, Readable, Data, Card, Write
  <2> QED BY <2>0 DEF Prelude, Readable
<1>5. Execution'
  BY DEF Execution, Spawned, Prelude
<1>6. Strangers'
  BY DEF Strangers, Execution, Prelude
<1>7. OnlyTrustedRuns'
  BY DEF OnlyTrustedRuns, Spawned, Execution, Prelude
<1>8. NothingOutlives'
  BY DEF NothingOutlives, Spawned, Execution
<1>9. ZeroMeansDone'
  BY DEF ZeroMeansDone, Spawned, Execution, Prelude
<1> QED BY <1>1, <1>2, <1>3, <1>4, <1>5, <1>6, <1>7, <1>8, <1>9

LEMMA WriteCardKeeps ==
    ASSUME IInv, WriteCard
    PROVE  IInv'
<1> USE DEF IInv, WriteCard, command, world, result
<1>1. Flags'
  <2>1. window' = FALSE /\ recycled' = recycled /\ harmed' = harmed
    OBVIOUS
  <2> QED BY <2>1 DEF Flags
<1>2. Data'
  <2>0. req \in Write /\ IsProgram(Program(req))
    BY DEF Prelude, Reading
  <2>a. Program(req) \in Payload
    BY <2>0, ProgramIsPayload
  <2>b. card' \in Card
    BY <2>a DEF Card
  <2>1. code' \in -1 .. 255
    BY CodeRange DEF Data
  <2>2. outcome' \in {"none", "refused", "failed", "written", "inspected",
                   "exited", "timed out", "interrupted"}
    BY DEF Data
  <2>3. pc' \in Over \cup {"open", "card", "execute", "try", "wait", "kill", "reap"}
    BY DEF Data, Over
  <2>4. /\ card' \in Card \cup {Blank} /\ author' \in Write \cup {NoRequest}
        /\ req' \in Write \cup Reading \cup {NoRequest} /\ payload' \in Payload \cup {Blank}
        /\ session' \in Session
    BY <2>0, <2>b DEF Data
  <2> QED BY <2>1, <2>2, <2>3, <2>4 DEF Data
<1>3. Signed'
  <2>0. req \in Write /\ IsProgram(Program(req))
    BY DEF Prelude, Reading
  <2> QED BY <2>0 DEF Signed
<1>4. Prelude'
  BY DEF Prelude
<1>5. Execution'
  BY DEF Execution, Spawned, Prelude
<1>6. Strangers'
  BY DEF Strangers, Execution, Prelude
<1>7. OnlyTrustedRuns'
  BY DEF OnlyTrustedRuns, Spawned, Execution, Prelude
<1>8. NothingOutlives'
  BY DEF NothingOutlives, Spawned, Execution
<1>9. ZeroMeansDone'
  BY DEF ZeroMeansDone, Spawned, Execution, Prelude
<1> QED BY <1>1, <1>2, <1>3, <1>4, <1>5, <1>6, <1>7, <1>8, <1>9

LEMMA WaitReturnsKeeps ==
    ASSUME IInv, WaitReturns
    PROVE  IInv'
<1> USE DEF IInv, WaitReturns, command, world, result, Reaped, Session
<1>1. Flags'
  <2>1. window' = window /\ recycled' = recycled /\ harmed' = harmed
    OBVIOUS
  <2> QED BY <2>1 DEF Flags
<1>2. Data'
  BY DEF Data, Over
<1>3. Signed'
  BY DEF Signed
<1>4. Prelude'
  BY DEF Prelude
<1>5. Execution'
  BY DEF Execution, Spawned, Prelude
<1>6. Strangers'
  BY DEF Strangers, Execution, Prelude
<1>7. OnlyTrustedRuns'
  BY DEF OnlyTrustedRuns, Spawned, Execution, Prelude
<1>8. NothingOutlives'
  BY DEF NothingOutlives, Spawned, Execution
<1>9. ZeroMeansDone'
  BY DEF ZeroMeansDone, Spawned, Execution, Prelude
<1> QED BY <1>1, <1>2, <1>3, <1>4, <1>5, <1>6, <1>7, <1>8, <1>9

LEMMA KillGroupKeeps ==
    ASSUME IInv, KillGroup
    PROVE  IInv'
<1> USE DEF IInv, KillGroup, command, world, result
<1>1. Flags'
  <2>1. window' = window /\ recycled' = recycled /\ harmed' = harmed
    OBVIOUS
  <2> QED BY <2>1 DEF Flags
<1>2. Data'
  <2>1. session' \in Session
    BY KilledSession DEF Data
  <2> QED BY <2>1 DEF Data, Over
<1>3. Signed'
  BY DEF Signed
<1>4. Prelude'
  BY DEF Prelude
<1>5. Execution'
  <2>1. /\ session'.members = 0 /\ session'.rooted = session.rooted
        /\ session'.left = session.left
        /\ session'.leader = IF Running(session) THEN "zombie" ELSE session.leader
    BY KilledSession DEF Data
  <2>2. session.leader \in {"none", "running", "zombie", "reaped"}
    BY DEF Data, Session
  <2> QED BY <2>1, <2>2 DEF Execution, Spawned, Prelude, Running
<1>6. Strangers'
  BY DEF Strangers, Execution, Prelude
<1>7. OnlyTrustedRuns'
  <2>1. /\ session'.members = 0 /\ session'.rooted = session.rooted
        /\ session'.left = session.left
        /\ session'.leader = IF Running(session) THEN "zombie" ELSE session.leader
    BY KilledSession DEF Data
  <2> QED BY <2>1 DEF OnlyTrustedRuns, Spawned, Execution, Prelude
<1>8. NothingOutlives'
  BY DEF NothingOutlives, Spawned, Execution
<1>9. ZeroMeansDone'
  BY DEF ZeroMeansDone, Spawned, Execution, Prelude
<1> QED BY <1>1, <1>2, <1>3, <1>4, <1>5, <1>6, <1>7, <1>8, <1>9

LEMMA ReapLeaderKeeps ==
    ASSUME IInv, ReapLeader
    PROVE  IInv'
<1> USE DEF IInv, ReapLeader, command, world, result, Reaped, ExitCode
<1>1. Flags'
  <2>1. window' = window /\ recycled' = recycled /\ harmed' = harmed
    OBVIOUS
  <2> QED BY <2>1 DEF Flags
<1>2. Data'
  <2>0. session' \in Session
    BY DEF Data, Session
  <2>1. code' \in -1 .. 255
    BY CodeRange DEF Data
  <2>2. outcome' \in {"none", "refused", "failed", "written", "inspected",
                   "exited", "timed out", "interrupted"}
    BY DEF Data
  <2>3. pc' \in Over \cup {"open", "card", "execute", "try", "wait", "kill", "reap"}
    BY DEF Data, Over
  <2>4. /\ card' \in Card \cup {Blank} /\ author' \in Write \cup {NoRequest}
        /\ req' \in Write \cup Reading \cup {NoRequest} /\ payload' \in Payload \cup {Blank}
        /\ session' \in Session
    BY <2>0 DEF Data
  <2> QED BY <2>1, <2>2, <2>3, <2>4 DEF Data
<1>3. Signed'
  BY DEF Signed
<1>4. Prelude'
  BY DEF Prelude
<1>5. Execution'
  BY DEF Execution, Spawned, Prelude
<1>6. Strangers'
  BY DEF Strangers, Execution, Prelude
<1>7. OnlyTrustedRuns'
  BY DEF OnlyTrustedRuns, Spawned, Execution, Prelude
<1>8. NothingOutlives'
  BY DEF NothingOutlives, Spawned, Execution
<1>9. ZeroMeansDone'
  BY DEF ZeroMeansDone, Spawned, Execution, Prelude
<1> QED BY <1>1, <1>2, <1>3, <1>4, <1>5, <1>6, <1>7, <1>8, <1>9

LEMMA StutterKeeps ==
    ASSUME IInv, UNCHANGED shellVars
    PROVE  IInv'
<1> USE DEF IInv, command, world, result, shellVars
<1>1. Flags'
  <2>1. window' = window /\ recycled' = recycled /\ harmed' = harmed
    OBVIOUS
  <2> QED BY <2>1 DEF Flags
<1>2. Data'
  BY DEF Data, Over
<1>3. Signed'
  BY DEF Signed
<1>4. Prelude'
  BY DEF Prelude
<1>5. Execution'
  BY DEF Execution, Spawned, Prelude
<1>6. Strangers'
  BY DEF Strangers, Execution, Prelude
<1>7. OnlyTrustedRuns'
  BY DEF OnlyTrustedRuns, Spawned, Execution, Prelude
<1>8. NothingOutlives'
  BY DEF NothingOutlives, Spawned, Execution
<1>9. ZeroMeansDone'
  BY DEF ZeroMeansDone, Spawned, Execution, Prelude
<1> QED BY <1>1, <1>2, <1>3, <1>4, <1>5, <1>6, <1>7, <1>8, <1>9

\* A card that nobody wrote.
LEMMA PlaceCardKeeps ==
    ASSUME IInv, NEW c \in Cards, PlaceCard(c)
    PROVE  IInv'
<1> USE DEF IInv, PlaceCard, command, world, result
<1>1. Flags'
  <2>1. window' = window /\ recycled' = recycled /\ harmed' = harmed
    OBVIOUS
  <2> QED BY <2>1 DEF Flags
<1>2. Data'
  BY ShellAssumption DEF Data
<1>3. Signed'
  BY DEF Signed
<1>4. Prelude' /\ Execution' /\ Strangers'
  BY DEF Prelude, Execution, Strangers, Spawned
<1>5. OnlyTrustedRuns' /\ NothingOutlives' /\ ZeroMeansDone'
  BY DEF OnlyTrustedRuns, NothingOutlives, ZeroMeansDone, Spawned
<1> QED BY <1>1, <1>2, <1>3, <1>4, <1>5

\* run() up to the transport.
LEMMA InvokeKeeps ==
    ASSUME IInv, NEW r \in Write \cup Reading, NEW fits \in BOOLEAN, Invoke(r, fits)
    PROVE  IInv'
<1> USE DEF IInv
<1>1. /\ pc = "idle" /\ req' = r
      /\ card' = card /\ author' = author /\ window' = window /\ payload' = payload
      /\ session' = session /\ recycled' = recycled /\ harmed' = harmed
  BY DEF Invoke, world
<1>2. \/ Prepared(r) /\ pc' = "open" /\ outcome' = outcome /\ code' = code
      \/ pc' = "end" /\ outcome' = "refused" /\ code' = 1
  BY DEF Invoke, Fails, result
<1>3. session = NoSession /\ code = -1 /\ ~window /\ ~recycled /\ ~harmed
  BY <1>1 DEF Prelude, Strangers, Flags
<1>4. ~Spawned' /\ session.leader = "none"
  BY <1>1, <1>3 DEF NoSession, Spawned
<1>5. Flags'
  BY <1>1 DEF Flags
<1>6. Data'
  <2>1. code' \in -1 .. 255
    BY <1>2, CodeRange DEF Data
  <2>2. outcome' \in {"none", "refused", "failed", "written", "inspected",
                      "exited", "timed out", "interrupted"}
    BY <1>2 DEF Data
  <2>3. pc' \in Over \cup {"open", "card", "execute", "try", "wait", "kill", "reap"}
    BY <1>2 DEF Over
  <2> QED BY <2>1, <2>2, <2>3, <1>1 DEF Data
<1>7. Signed'
  BY <1>1 DEF Signed
<1>8. Prelude'
  <2>1. r \in Write /\ pc' = "open" => IsProgram(Program(r))
    BY <1>2 DEF Prepared, Write
  <2> QED BY <1>1, <1>2, <1>3, <2>1 DEF Prelude
<1>9. Execution' /\ Strangers' /\ OnlyTrustedRuns' /\ NothingOutlives'
  BY <1>1, <1>2, <1>3, <1>4 DEF Execution, Strangers, OnlyTrustedRuns, NothingOutlives
<1>10. ZeroMeansDone'
  <2>1. ~(pc' = "end" /\ code' = 0)
    BY <1>2
  <2> QED BY <2>1 DEF ZeroMeansDone
<1> QED BY <1>5, <1>6, <1>7, <1>8, <1>9, <1>10

\* execute_program: what is started was verified.
LEMMA StartKeeps ==
    ASSUME IInv, Start
    PROVE  IInv'
<1> USE DEF IInv
<1> DEFINE limit == Sooner(payload.timeout, req.max)
<1>1. /\ pc = "execute" /\ req.action = "run" /\ pc' = "try"
      /\ card' = card /\ author' = author /\ req' = req /\ window' = window
      /\ payload' = payload /\ recycled' = recycled /\ harmed' = harmed
      /\ outcome' = outcome /\ code' = code
  BY DEF Start, world, result
<1>2. /\ req \in Reading /\ payload \in Payload /\ code = -1 /\ ~window
      /\ ~recycled /\ ~harmed
  BY <1>1 DEF Prelude, Strangers, Flags
<1>3. Verifies(payload, req.trusted) /\ ~req.root /\ req.max \in Timeout
  BY DEF Start, MayExecute
<1>4. req.trusted \in Trust
  BY <1>2 DEF Reading
<1>5. /\ payload.issuer \in Issuer /\ payload.timeout \in Timeout
      /\ req.trusted[payload.issuer] # NoKey
      /\ payload = EncodeProgram(payload.issuer, payload.timeout, req.trusted[payload.issuer])
  BY <1>2, <1>3, <1>4, VerifiedIsSigned
<1>6. limit \in Nat /\ limit <= payload.timeout /\ limit <= req.max
  <2>1. payload.timeout \in Nat /\ req.max \in Nat
    BY <1>3, <1>5, PayloadAssumption
  <2> QED BY <2>1 DEF Sooner
<1>7. /\ session' \in Session /\ session'.leader = "running" /\ session'.left = limit
      /\ session'.rooted = {} /\ session'.members = 0
  <2> HIDE DEF limit
  <2>1. session' = [NoSession EXCEPT !.leader = "running", !.left = limit]
    BY DEF Start, limit
  <2> QED BY <2>1, <1>6, NoSessionIsOne DEF NoSession, Session
<1> HIDE DEF limit
<1>8. Flags'
  BY <1>1 DEF Flags
<1>9. Data'
  BY <1>1, <1>7 DEF Data
<1>10. Signed' /\ Prelude'
  BY <1>1, <1>2 DEF Signed, Prelude
<1>11. Execution' /\ Strangers'
  BY <1>1, <1>2, <1>7 DEF Execution, Strangers, Spawned
<1>12. OnlyTrustedRuns'
  BY <1>1, <1>2, <1>3, <1>5, <1>6, <1>7 DEF OnlyTrustedRuns
<1>13. NothingOutlives' /\ ZeroMeansDone'
  BY <1>1 DEF NothingOutlives, ZeroMeansDone
<1> QED BY <1>8, <1>9, <1>10, <1>11, <1>12, <1>13

\* The program and the clock.
LEMMA ProgramKeeps ==
    ASSUME IInv, ProgramStep \/ Tick
    PROVE  IInv'
<1> USE DEF IInv
<1>1. Evolution(session') /\ Evolves(session')
  BY ProgramEvolves DEF ShellTypeOK, Flags, Data
<1>2. /\ pc \notin Over /\ pc' = pc /\ req' = req /\ window' = window /\ payload' = payload
      /\ card' = card /\ author' = author /\ recycled' = recycled /\ harmed' = harmed
      /\ outcome' = outcome /\ code' = code
  BY <1>1 DEF Evolves, command, world, result
<1>3. Flags'
  BY <1>2 DEF Flags
<1>4. Data'
  BY <1>1, <1>2 DEF Data, Evolution
<1>5. Signed'
  BY <1>2 DEF Signed
<1>6. Spawned /\ Spawned' /\ pc # "end"
  BY <1>1, <1>2 DEF Evolution, Spawned, Over
<1>7. Prelude'
  BY <1>2, <1>6 DEF Prelude, Execution
<1>8. Execution'
  BY <1>1, <1>2, <1>6 DEF Execution, Evolution, Running
<1>9. Strangers'
  BY <1>1, <1>2 DEF Strangers, Evolution, Running
<1>10. OnlyTrustedRuns'
  <2>1. PICK i \in Issuer, t \in Timeout :
            /\ req.trusted[i] # NoKey
            /\ payload = EncodeProgram(i, t, req.trusted[i])
            /\ session.left <= t /\ session.left <= req.max
    BY <1>6 DEF OnlyTrustedRuns
  <2>2. /\ session.left \in Nat /\ session'.left \in Nat /\ session'.left <= session.left
    BY <1>1 DEF Data, Session, Evolution
  <2>3. t \in Nat /\ req.max \in Nat
    <3>1. req.max \in Timeout \/ req.max = 0
      BY <1>6 DEF Execution, Reading
    <3> QED BY <3>1, TimeoutIsNat
  <2>4. session'.left <= t /\ session'.left <= req.max
    BY <2>1, <2>2, <2>3
  <2> QED BY <1>2, <1>6, <2>1, <2>4 DEF OnlyTrustedRuns
<1>11. NothingOutlives' /\ ZeroMeansDone'
  BY <1>2, <1>6 DEF NothingOutlives, ZeroMeansDone
<1> QED BY <1>3, <1>4, <1>5, <1>7, <1>8, <1>9, <1>10, <1>11

\* IInv is inductive.
LEMMA NextKeeps ==
    ASSUME IInv, [ShellNext]_shellVars
    PROVE  IInv'
<1>1. CASE \E c \in Cards : PlaceCard(c)
  BY <1>1, PlaceCardKeeps
<1>2. CASE \E r \in Write \cup Reading, fits \in BOOLEAN : Invoke(r, fits)
  BY <1>2, InvokeKeeps
<1>3. CASE CommandStep
  BY <1>3, OpenTransportKeeps, TransportRefusedKeeps, WriteCardKeeps, WriteStopsKeeps,
     ReadCardKeeps, ReadFailsKeeps, InspectKeeps, ExecuteRefusedKeeps, StartKeeps,
     EnterTryKeeps, WaitReturnsKeeps, TimedOutKeeps, KillGroupKeeps, KillRefusedKeeps,
     KillFindsNoGroupKeeps, ReapLeaderKeeps
  DEF CommandStep, Wait
<1>4. CASE Interrupt \/ Killed \/ Again \/ Recycle
  BY <1>4, InterruptKeeps, KilledKeeps, AgainKeeps, RecycleKeeps
<1>5. CASE ProgramStep \/ Tick
  BY <1>5, ProgramKeeps
<1>6. CASE UNCHANGED shellVars
  BY <1>6, StutterKeeps
<1> QED BY <1>1, <1>2, <1>3, <1>4, <1>5, <1>6 DEF ShellNext

\* The inductive invariant holds throughout, whatever the program does and
\* wherever the command is interrupted or killed.
THEOREM ShellInvariant == ShellSpec => []IInv
BY InitInv, NextKeeps, PTL DEF ShellSpec

-----------------------------------------------------------------------------
(* What follows *)

\* Every variable keeps its type.
THEOREM ShellTyped == ShellSpec => []ShellTypeOK
<1>1. IInv => ShellTypeOK
  BY DEF IInv, Flags, Data, ShellTypeOK
<1> QED BY <1>1, ShellInvariant, PTL

\* What execute_program starts is signed by a trusted issuer, not as root, within
\* both timeouts, and after the reader window was closed.
THEOREM TrustedProgramsOnly == ShellSpec => []OnlyTrustedRuns
<1>1. IInv => OnlyTrustedRuns
  BY DEF IInv
<1> QED BY <1>1, ShellInvariant, PTL

\* A command that returns leaves nothing of the process group that it could
\* have killed, and no zombie.
THEOREM GroupsEndWithTheirCommand == ShellSpec => []NothingOutlives
<1>1. IInv => NothingOutlives
  BY DEF IInv
<1> QED BY <1>1, ShellInvariant, PTL

\* Status 0 is returned only for what was done.
THEOREM SuccessIsEarned == ShellSpec => []ZeroMeansDone
<1>1. IInv => ZeroMeansDone
  BY DEF IInv
<1> QED BY <1>1, ShellInvariant, PTL

\* killpg meets a stranger only when the program has ended by itself or the
\* command was interrupted, never when the time was over.
THEOREM StrangersAreSpared == ShellSpec => []StrangersSpared
<1>1. IInv => StrangersSpared
  BY DEF IInv, Strangers, StrangersSpared
<1> QED BY <1>1, ShellInvariant, PTL

LEMMA AuthorsTrusted == IInv => WrittenCardsVerify
<1>1. ASSUME IInv, author # NoRequest
      PROVE  /\ card # Blank /\ card.shell
             /\ \A trusted \in Trust :
                   Verifies(card.payload, trusted) <=> trusted[author.issuer] = author.key
  <2>1. /\ author \in Write /\ IsProgram(Program(author))
        /\ card = [shell |-> TRUE, payload |-> Program(author)]
    BY <1>1 DEF IInv, Signed
  <2>2. card \in Card /\ Blank \notin Card
    BY <2>1, ProgramIsPayload, ShellAssumption DEF Card
  <2>3. card # Blank /\ card.shell /\ card.payload = Program(author)
    BY <2>1, <2>2
  <2> QED BY <2>1, <2>3, SignedVerifies
<1> QED BY <1>1 DEF WrittenCardsVerify

\* A card verifies exactly for those who trust its author with the author's key.
THEOREM AuthorsAreTrusted == ShellSpec => []WrittenCardsVerify
BY AuthorsTrusted, ShellInvariant, PTL

LEMMA CommandsComeBack == IInv => CommandsRoundTrip
<1> SUFFICES ASSUME IInv, card # Blank, DecodesCommand(card.payload) PROVE CommandsRoundTrip
  BY DEF CommandsRoundTrip
<1>1. card.payload \in Payload
  BY DEF IInv, Data, Card
<1> QED BY <1>1, CommandRoundTrip DEF CommandsRoundTrip

\* A managed command survives the way through CBOR and through JSON, with what
\* its signature is worth, whatever payload the card holds.
THEOREM CommandsSurvive == ShellSpec => []CommandsRoundTrip
BY CommandsComeBack, ShellInvariant, PTL
=============================================================================
