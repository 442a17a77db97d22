----------------------------- MODULE ScriptProofs -----------------------------
(***************************************************************************)
(* Proofs about ScriptRuns, for any scripts, manifests and policies.       *)
(***************************************************************************)
EXTENDS ScriptRuns, SequenceTheorems, TLAPS

(***************************************************************************)
(* Statements.                                                             *)
(***************************************************************************)

\* A statement that is not transaction control leaves the block as it is.
LEMMA OthersStay ==
    ASSUME NEW n, ~IsTransactionControl(Kind(n))
    PROVE  Leaves(n) = "statement"
<1>1. ~("none" \in DOMAIN Closing)
  BY DEF Closing
<1>2. CASE n.node = "TransactionStmt" /\ "kind" \in DOMAIN n
  <2>1. n.node \notin DOMAIN Constructs
    BY <1>2 DEF Constructs
  <2>2. Kind(n) = [is |-> "TransactionControl", operation |-> Operation(n)]
    BY <1>2, <2>1 DEF Kind
  <2>. QED
    BY <2>2 DEF IsTransactionControl
<1>3. CASE ~(n.node = "TransactionStmt" /\ "kind" \in DOMAIN n)
  BY <1>1, <1>3 DEF Leaves, Text
<1>. QED
  BY <1>2, <1>3

\* DISCARD is known for what it would do to the runner's session.
LEMMA DiscardIsKnown ==
    ASSUME NEW n, n.node = "DiscardStmt"
    PROVE  BreaksRunnerSession(Kind(n))
<1>1. "DiscardStmt" \in DOMAIN Constructs /\ Constructs["DiscardStmt"] = "DISCARD"
  BY DEF Constructs
<1>2. Kind(n) = [is |-> "NonTransactional", construct |-> Constructs[n.node]]
  BY <1>1 DEF Kind
<1>. QED
  BY <1>1, <1>2 DEF BreaksRunnerSession

\* So is everything that loses rows.
LEMMA LossIsKnown ==
    ASSUME NEW n, Destroys(n)
    PROVE  "destructive" \in Risks(Kind(n))
<1>1. CASE n.node = "TruncateStmt"
  <2>0. n.node \notin DOMAIN Constructs
    BY <1>1 DEF Constructs
  <2>1. Kind(n) = [is |-> "Truncate"]
    BY <1>1, <2>0 DEF Kind
  <2>. QED
    BY <2>1 DEF Risks
<1>2. CASE n.node = "DropStmt" /\ Text(n, "removeType") \in {"OBJECT_TABLE", "OBJECT_MATVIEW", "OBJECT_SCHEMA"}
  <2>0. n.node \notin DOMAIN Constructs
    BY <1>2 DEF Constructs
  <2>1. Kind(n) = [is |-> "Drop", object |-> Object(Text(n, "removeType")),
                   concurrent |-> Flag(n, "concurrent")]
    BY <1>2, <2>0 DEF Kind
  <2>2. Object(Text(n, "removeType")) \in DataBearing
    BY <1>2 DEF Object, Objects, DataBearing
  <2>. QED
    BY <2>1, <2>2 DEF Risks
<1>3. CASE n.node = "AlterTableStmt" /\ \E i \in DOMAIN Items(n, "cmds") : n.cmds[i].subtype = "AT_DropColumn"
  <2>0. n.node \notin DOMAIN Constructs
    BY <1>3 DEF Constructs
  <2>1. Kind(n) = [is |-> "AlterTable",
                   actions |-> {Action(Items(n, "cmds")[i]) : i \in DOMAIN Items(n, "cmds")}]
    BY <1>3, <2>0 DEF Kind
  <2>2. PICK i \in DOMAIN Items(n, "cmds") : n.cmds[i].subtype = "AT_DropColumn"
    BY <1>3
  <2>3. "cmds" \in DOMAIN n
    BY <2>2 DEF Items
  <2>4. Action(Items(n, "cmds")[i]) = [is |-> "DropColumn"]
    BY <2>2, <2>3 DEF Items, Action
  <2>5. "destructive" \in AlterRisks(Action(Items(n, "cmds")[i]))
    BY <2>4 DEF AlterRisks
  <2>6. Risks(Kind(n)) = UNION {AlterRisks(a) : a \in Kind(n).actions}
    BY <2>1 DEF Risks
  <2>. QED
    BY <2>1, <2>2, <2>5, <2>6
<1>. QED
  BY <1>1, <1>2, <1>3 DEF Destroys

(***************************************************************************)
(* Control: which script is in hand, and what was checked of it.           *)
(***************************************************************************)
Active == pc \in {"running", "rejected"}
Busy == pc = "gate" \/ Active

Entry == [role : Roles, status : {"succeeded", "failed"}, ran : Nat, messages : Seq(Nat)]

Typed ==
    /\ pc \in {"idle", "gate", "running", "rejected", "done"}
    /\ at \in Nat
    /\ terms.mode \in {"required", "forbidden"}
    /\ \A r \in Roles : Present(r) => files[r] \in Scripts[r]
    /\ report \in Seq(Entry)
    /\ said \in Seq(Nat) /\ stream \in Seq(Nat) /\ inbox \in Seq(Nat)
    /\ cursor \in 0 .. Len(inbox)

\* The command's own script, and after a deploy perhaps a verification.
First ==
    /\ report = <<>> /\ cmd \in Roles
    /\ queue = <<cmd>> \/ (cmd = "deploy" /\ queue = <<"deploy", "verify">> /\ Present("verify"))

Second == Len(report) = 1 /\ cmd = "deploy" /\ queue = <<"verify">>

Steps ==
    /\ pc = "idle" => report = <<>> /\ at = 0 /\ cmd = "none"
    /\ pc = "gate" /\ report = <<>> => at = 0
    /\ Busy => (First \/ Second) /\ Present(Role)
    /\ pc = "done" => report # <<>>

Checked ==
    /\ cmd = "deploy" => Present("deploy") /\ Valid
    /\ cmd = "revert" => ~RunsNothing(files["revert"])

InHand ==
    Active =>
        /\ Sound
        /\ at <= Len(Sql.body)
        /\ tx = IF Mode = "required" THEN "open" ELSE "none"

RanWithin ==
    cmd = "deploy" /\ report # <<>> => report[1].ran <= Len(files["deploy"].body)

Control ==
    /\ Typed /\ Steps /\ Checked /\ InHand /\ RanWithin
    /\ NoFalseGreen
    /\ LockOutlivesTheScripts

\* Short queues, taken apart.
LEMMA Short ==
    ASSUME NEW a, NEW b
    PROVE  /\ Head(<<a>>) = a /\ Tail(<<a>>) = <<>> /\ <<a>> # <<>>
           /\ Head(<<a, b>>) = a /\ Tail(<<a, b>>) = <<b>> /\ <<a, b>> # <<>>
OBVIOUS

LEMMA ScriptIsSequence ==
    ASSUME NEW r \in Roles, NEW s \in Scripts[r]
    PROVE  /\ s.parses \in BOOLEAN
           /\ Len(s.body) \in Nat /\ DOMAIN s.body = 1 .. Len(s.body)
           /\ s.body = <<>> <=> Len(s.body) = 0
<1>1. s.parses \in BOOLEAN /\ s.body \in Seq({s.body[i] : i \in DOMAIN s.body})
  BY ScriptsAssumption
<1>. QED
  BY <1>1, EmptySeq, LenProperties

\* The script in hand is one of those its file may have.
LEMMA HandHoldsScript ==
    ASSUME Typed, Steps, Busy
    PROVE  Role \in Roles /\ Sql \in Scripts[Role] /\ Role \in {cmd, "verify"}
           /\ (report = <<>> => Role = cmd) /\ (report # <<>> => Role = "verify")
<1>1. CASE First
  BY <1>1, Short DEF First, Steps, Role, Sql, Typed, Roles
<1>2. CASE Second
  <2>1. Role = "verify" /\ report # <<>>
    BY <1>2, Short, EmptySeq DEF Second, Role
  <2>. QED
    BY <2>1 DEF Steps, Sql, Typed, Roles
<1>. QED
  BY <1>1, <1>2 DEF Steps

\* Nothing that is sent touches the runner's transaction.
LEMMA Owned ==
    ASSUME Control, Active, NEW i \in DOMAIN Sql.body
    PROVE  /\ ~IsTransactionControl(Kind(Sql.body[i]))
           /\ Mode = "forbidden" => ~BreaksRunnerSession(Kind(Sql.body[i]))
<1>1. Role \in Roles /\ Sql \in Scripts[Role] /\ Busy
  BY HandHoldsScript DEF Control, Busy
<1>2. Kind(Sql.body[i]) \in Kinds(Sql)
  BY DEF Kinds
<1>3. CASE Mode # "forbidden"
  <2>1. RunnerOwnsTransaction(Sql)
    BY <1>3 DEF Control, InHand, Sound
  <2>. QED
    BY <1>2, <1>3, <2>1 DEF RunnerOwnsTransaction
<1>4. CASE Mode = "forbidden"
  <2>1. Role = "deploy" /\ terms.mode = "forbidden"
    BY <1>4 DEF Mode
  <2>2. cmd = "deploy"
    BY <1>1, <2>1, HandHoldsScript DEF Control
  <2>3. ScriptErrors("deploy", "forbidden", Sql) = {}
    BY <2>1, <2>2 DEF Control, Checked, Valid, Sql
  <2>4. ~RunsNothing(Sql)
    <3>1. Sql.body # <<>>
      BY <1>1, ScriptIsSequence
    <3>. QED
      BY <3>1 DEF RunsNothing
  <2>5. Sql.parses
    BY <2>3, <2>4 DEF ScriptErrors
  <2>6. ScriptErrors("deploy", "forbidden", Sql) =
            {e \in {"ScriptTransactionControl"} : \E k \in Kinds(Sql) : IsTransactionControl(k)}
            \cup ModeErrors("forbidden", Sql)
    BY <2>4, <2>5 DEF ScriptErrors
  <2>7. ~\E k \in Kinds(Sql) : IsTransactionControl(k)
    BY <2>3, <2>6
  <2>8. ModeErrors("forbidden", Sql) = {}
    BY <2>3, <2>6
  <2>9. ~\E k \in Kinds(Sql) : BreaksRunnerSession(k)
    BY <2>8 DEF ModeErrors
  <2>. QED
    BY <1>2, <2>7, <2>9
<1>. QED
  BY <1>3, <1>4

(***************************************************************************)
(* Control holds at first, and every step keeps it.                        *)
(***************************************************************************)
LEMMA ControlStarts == Init => Control
<1> SUFFICES ASSUME Init PROVE Control
  OBVIOUS
<1>1. Typed
  BY EmptySeq DEF Init, Typed, NoTerms, Present, NoFiles
<1>2. Steps /\ Checked /\ InHand /\ RanWithin
  BY DEF Init, Steps, Checked, InHand, RanWithin, Busy, Active
<1>3. NoFalseGreen /\ LockOutlivesTheScripts
  BY DEF Init, NoFalseGreen, LockOutlivesTheScripts
<1>. QED
  BY <1>1, <1>2, <1>3 DEF Control

LEMMA StartControls ==
    ASSUME Control, NEW c \in Roles, Start(c)
    PROVE  Control'
<1>1. pc = "idle" /\ report = <<>> /\ at = 0
  BY DEF Start, Control, Steps
<1>2. /\ pc' = "gate" /\ cmd' = c /\ lock' = TRUE /\ inbox' \in {<<>>, <<0>>} /\ cursor' = Len(inbox')
      /\ UNCHANGED <<report, tx, at, stream, said>>
      /\ MayRun(c)' /\ queue' \in Jobs(c)'
  BY DEF Start, history
<1>3. Typed'
  <2>1. \A r \in Roles : Present(r)' => files'[r] \in Scripts[r]
    <3>1. PICK d \in Texts("deploy", c), v \in Texts("verify", c),
               x \in Texts("revert", c), t \in Texts("test", c) :
               files' = [deploy |-> d, verify |-> v, revert |-> x, test |-> t]
      BY DEF Start
    <3>2. \A r \in Roles : Texts(r, c) \subseteq Scripts[r] \cup {Absent}
      BY DEF Texts
    <3>. QED
      BY <3>1, <3>2 DEF Roles, Present
  <2>2. terms'.mode \in {"required", "forbidden"}
    BY ScriptsAssumption DEF Start, NoTerms
  <2>3. inbox' \in Seq(Nat) /\ cursor' \in 0 .. Len(inbox')
    <3>1. <<>> \in Seq(Nat) /\ <<0>> \in Seq(Nat)
      OBVIOUS
    <3>2. inbox' \in Seq(Nat)
      BY <1>2, <3>1
    <3>. QED
      BY <1>2, <3>2, LenProperties
  <2>. QED
    BY <1>2, <2>1, <2>2, <2>3 DEF Control, Typed
<1>4. Present(c)'
  BY <1>2 DEF MayRun, Roles
<1>5. First' /\ Role' = c
  <2>1. queue' = <<c>> \/ (c = "deploy" /\ queue' = <<"deploy", "verify">> /\ Present("verify")')
    BY <1>2 DEF Jobs
  <2>. QED
    BY <1>1, <1>2, <2>1, Short DEF First, Role
<1>6. Steps'
  BY <1>1, <1>2, <1>4, <1>5 DEF Steps, Busy
<1>7. Checked'
  BY <1>2 DEF MayRun, Checked
<1>8. InHand' /\ RanWithin' /\ NoFalseGreen'
  BY <1>1, <1>2 DEF InHand, Active, RanWithin, NoFalseGreen
<1>. QED
  BY <1>2, <1>3, <1>6, <1>7, <1>8 DEF Control, LockOutlivesTheScripts

LEMMA SendControls == ASSUME Control, Send PROVE Control'
<1>1. /\ pc = "gate" /\ Sound /\ pc' = "running" /\ at' = 0
      /\ tx' = IF Mode = "required" THEN "open" ELSE "none"
      /\ said' = Append(said, 0)
      /\ UNCHANGED <<cmd, files, terms, queue, report, lock, stream, inbox, cursor>>
  BY DEF Send, messages
<1>2. Typed'
  BY <1>1 DEF Control, Typed, Present
<1>3. Steps'
  BY <1>1 DEF Control, Steps, Busy, Active, First, Second, Present, Role
<1>4. Checked'
  BY <1>1 DEF Control, Checked, Present, Valid, Findings
<1>5. InHand'
  <2>1. Len(Sql.body) \in Nat
    BY <1>1, HandHoldsScript, ScriptIsSequence DEF Control, Busy
  <2>. QED
    BY <1>1, <2>1 DEF InHand, Sound, Mode, Role, Sql
<1>6. RanWithin' /\ NoFalseGreen' /\ LockOutlivesTheScripts'
  BY <1>1 DEF Control, RanWithin, NoFalseGreen, LockOutlivesTheScripts
<1>. QED
  BY <1>2, <1>3, <1>4, <1>5, <1>6 DEF Control

\* What the report says of the script in hand.
LEMMA Collected ==
    ASSUME Typed, Steps, Busy
    PROVE  /\ Taken \in Seq(Nat)
           /\ Role # "test" =>
                /\ Len(Taken) = Len(inbox) - cursor
                /\ \A k \in 1 .. Len(Taken) : Taken[k] = inbox[cursor + k]
<1>1. inbox \in Seq(Nat) /\ cursor \in 0 .. Len(inbox) /\ Len(inbox) \in Nat
  BY LenProperties DEF Typed
<1>2. CASE Role = "test"
  BY <1>2, EmptySeq DEF Taken
<1>3. CASE Role # "test"
  <2>1. \A i \in cursor + 1 .. Len(inbox) : inbox[i] \in Nat
    BY <1>1, ElementOfSeq
  <2>2. /\ SubSeq(inbox, cursor + 1, Len(inbox)) \in Seq(Nat)
        /\ Len(SubSeq(inbox, cursor + 1, Len(inbox))) = Len(inbox) - cursor
        /\ \A k \in 1 .. Len(inbox) - cursor :
              SubSeq(inbox, cursor + 1, Len(inbox))[k] = inbox[cursor + 1 + k - 1]
    BY <1>1, <2>1, SubSeqProperties
  <2>. QED
    BY <1>1, <1>3, <2>2 DEF Taken
<1>. QED
  BY <1>2, <1>3

\* The entry of the script in hand is the report's last.
Now(status) == [role |-> Role, status |-> status, ran |-> at', messages |-> Taken]

LEMMA ReportGrows ==
    ASSUME Control, Busy, NEW status \in {"succeeded", "failed"}, Ended(status), at' \in Nat
    PROVE  /\ report \in Seq(Entry) /\ report' \in Seq(Entry) /\ report' # <<>>
           /\ Len(report') = Len(report) + 1 /\ Len(report) \in Nat
           /\ \A i \in 1 .. Len(report) : report'[i] = report[i]
           /\ report'[Len(report) + 1] = Now(status)
           /\ DOMAIN report = 1 .. Len(report) /\ DOMAIN report' = 1 .. Len(report')
<1> DEFINE longer == Append(report, Now(status))
<1>1. Role \in Roles
  BY HandHoldsScript DEF Control
<1>2. Now(status) \in Entry
  BY <1>1, Collected DEF Control, Entry, Now
<1>3. report \in Seq(Entry)
  BY DEF Control, Typed
<1>4. /\ longer \in Seq(Entry) /\ longer # <<>>
      /\ Len(longer) = Len(report) + 1
      /\ \A i \in 1 .. Len(report) : longer[i] = report[i]
      /\ longer[Len(report) + 1] = Now(status)
  BY <1>2, <1>3, AppendProperties
<1>5. report' = longer
  BY DEF Ended, Now
<1> HIDE DEF longer
<1>. QED
  BY <1>3, <1>4, <1>5, LenProperties

LEMMA EndedControls ==
    ASSUME Control, Busy, NEW status \in {"succeeded", "failed"}, Ended(status),
           at' \in Nat, at' <= Len(Sql.body),
           stream' \in Seq(Nat), said' \in Seq(Nat),
           status = "succeeded" => at' = Len(Sql.body) /\ Sound /\ lock' = lock
    PROVE  Control'
<1>1. /\ cursor' = IF Role = "test" THEN cursor ELSE Len(inbox)
      /\ queue' = IF status = "succeeded" THEN Tail(queue) ELSE <<>>
      /\ pc' = IF queue' = <<>> THEN "done" ELSE "gate"
      /\ UNCHANGED <<cmd, files, terms, inbox>>
  BY DEF Ended
<1>2. /\ Role \in Roles /\ Sql \in Scripts[Role]
      /\ report = <<>> => Role = cmd
      /\ report # <<>> => Role = "verify"
  BY HandHoldsScript DEF Control
<1>3. Now(status).role = Role /\ Now(status).status = status /\ Now(status).ran = at'
  BY DEF Now
<1>4. /\ report \in Seq(Entry) /\ report' \in Seq(Entry) /\ report' # <<>>
      /\ Len(report') = Len(report) + 1 /\ Len(report) \in Nat
      /\ \A i \in 1 .. Len(report) : report'[i] = report[i]
      /\ report'[Len(report) + 1] = Now(status)
      /\ DOMAIN report = 1 .. Len(report) /\ DOMAIN report' = 1 .. Len(report')
  BY ReportGrows
<1>5. Typed'
  <2>1. Len(inbox) \in Nat
    BY LenProperties DEF Control, Typed
  <2>. QED
    BY <1>1, <1>4, <2>1 DEF Control, Typed, Present
<1>6. Steps'
  <2>1. SUFFICES ASSUME pc' = "gate"
                 PROVE  Second' /\ Present(Role)'
    BY <1>1, <1>4 DEF Steps, Busy, Active
  <2>2. status = "succeeded" /\ Tail(queue) # <<>>
    BY <1>1, <2>1
  <2>3. First /\ cmd = "deploy" /\ queue = <<"deploy", "verify">> /\ Present("verify")
    BY <2>2, Short DEF Control, Steps, First, Second
  <2>4. Len(report') = 1 /\ queue' = <<"verify">>
    BY <1>1, <1>4, <2>2, <2>3, Short, EmptySeq DEF First
  <2>. QED
    BY <1>1, <2>3, <2>4, Short DEF Second, Role, Present
<1>7. Checked'
  BY <1>1 DEF Control, Checked, Present, Valid, Findings
<1>8. InHand'
  BY <1>1 DEF InHand, Active
<1>9. RanWithin'
  <2>1. CASE report = <<>>
    <3>1. report'[1] = Now(status)
      BY <1>4, <2>1, EmptySeq
    <3>. QED
      BY <1>1, <1>2, <1>3, <2>1, <3>1 DEF RanWithin, Sql
  <2>2. CASE report # <<>>
    <3>1. 1 \in 1 .. Len(report)
      BY <1>4, <2>2, EmptySeq
    <3>. QED
      BY <1>1, <1>4, <2>2, <3>1 DEF Control, RanWithin
  <2>. QED
    BY <2>1, <2>2
<1>10. NoFalseGreen'
  <2>1. status = "succeeded" /\ Role \in {"verify", "revert"} => at' > 0
    <3> SUFFICES ASSUME status = "succeeded", Role \in {"verify", "revert"}
                 PROVE  Sql.body # <<>>
      BY <1>2, ScriptIsSequence
    <3>1. Sql.parses /\ (Role = "verify" => ~RunsNothing(Sql))
      BY DEF Sound, RunnerOwnsTransaction
    <3>2. CASE Role = "verify"
      BY <3>1, <3>2 DEF RunsNothing
    <3>3. CASE Role = "revert"
      <4>1. cmd = "revert"
        BY <1>2, <3>3
      <4>. QED
        BY <3>1, <3>3, <4>1 DEF Control, Checked, RunsNothing, Sql
    <3>. QED
      BY <3>2, <3>3
  <2>2. \A i \in 1 .. Len(report) : report'[i] = report[i]
    BY <1>4
  <2>3. \A i \in DOMAIN report' : i \in 1 .. Len(report) \/ i = Len(report) + 1
    BY <1>4
  <2>4. ASSUME NEW i \in DOMAIN report', report'[i].status = "succeeded"
        PROVE  /\ report'[i].ran = Len(files'[report'[i].role].body)
               /\ report'[i].role \in {"verify", "revert"} => report'[i].ran > 0
    <3>1. CASE i \in 1 .. Len(report)
      BY <1>1, <1>4, <2>2, <2>4, <3>1 DEF Control, NoFalseGreen
    <3>2. CASE i = Len(report) + 1
      BY <1>1, <1>3, <1>4, <2>1, <2>4, <3>2 DEF Sql
    <3>. QED
      BY <2>3, <3>1, <3>2
  <2>. QED
    BY <2>4 DEF NoFalseGreen
<1>11. LockOutlivesTheScripts'
  <2>1. pc' \in {"done", "gate"} /\ (pc' = "gate" => status = "succeeded")
    BY <1>1
  <2>2. lock
    BY DEF Control, LockOutlivesTheScripts, Busy, Active
  <2>. QED
    BY <2>1, <2>2 DEF LockOutlivesTheScripts
<1>. QED
  BY <1>5, <1>6, <1>7, <1>8, <1>9, <1>10, <1>11 DEF Control

\* Notices of the script in hand join those that are on their way.
LEMMA SaySays ==
    ASSUME Typed, NEW k \in 0 .. 1, Say(k), This \in DOMAIN said
    PROVE  /\ said' \in Seq(Nat) /\ stream' \in Seq(Nat)
           /\ Len(said') = Len(said) /\ said'[This] = said[This] + k
           /\ \A i \in DOMAIN said \ {This} : said'[i] = said[i]
           /\ Len(stream') = Len(stream) + k
           /\ \A i \in DOMAIN stream' :
                 (i \in DOMAIN stream /\ stream'[i] = stream[i]) \/ stream'[i] = This
<1> DEFINE new == [i \in 1 .. k |-> This]
<1>1. This \in Nat
  BY LenProperties DEF Typed, This
<1>2. new \in Seq(Nat) /\ Len(new) = k
  BY <1>1, IsASeq, LenProperties
<1>3. stream \in Seq(Nat) /\ Len(stream) \in Nat /\ DOMAIN stream = 1 .. Len(stream)
  BY LenProperties DEF Typed
<1>4. \A i \in 1 .. k : new[i] = This
  OBVIOUS
<1>5. stream' = stream \o new
  BY DEF Say
<1> HIDE DEF new
<1>6. /\ stream \o new \in Seq(Nat) /\ Len(stream \o new) = Len(stream) + k
      /\ \A i \in 1 .. Len(stream) + k :
            (stream \o new)[i] = IF i <= Len(stream) THEN stream[i] ELSE new[i - Len(stream)]
  BY <1>2, <1>3, ConcatProperties
<1>7. DOMAIN (stream \o new) = 1 .. Len(stream) + k
  BY <1>6, LenProperties
<1>8. \A i \in DOMAIN (stream \o new) :
          (i \in DOMAIN stream /\ (stream \o new)[i] = stream[i]) \/ (stream \o new)[i] = This
  BY <1>3, <1>4, <1>6, <1>7
<1>9. /\ said' \in Seq(Nat) /\ Len(said') = Len(said) /\ said'[This] = said[This] + k
      /\ \A i \in DOMAIN said \ {This} : said'[i] = said[i]
  <2>1. said \in Seq(Nat) /\ said[This] \in Nat /\ Len(said) \in Nat /\ DOMAIN said = 1 .. Len(said)
    BY ElementOfSeq, LenProperties DEF Typed
  <2>2. said' = [said EXCEPT ![This] = @ + k]
    BY DEF Say
  <2>. QED
    BY <2>1, <2>2, ExceptSeq
<1>. QED
  BY <1>5, <1>6, <1>8, <1>9

LEMMA ExecuteControls == ASSUME Control, Execute, This \in DOMAIN said PROVE Control'
<1> DEFINE n == Sql.body[at + 1]
<1>1. /\ pc = "running" /\ at < Len(Sql.body) /\ ~Refused(n) /\ Effect(n) /\ at' = at + 1
      /\ UNCHANGED <<pc, cmd, files, terms, queue, report, inbox, cursor>>
  BY DEF Execute, process
<1>2. /\ Role \in Roles /\ Sql \in Scripts[Role]
      /\ Len(Sql.body) \in Nat /\ DOMAIN Sql.body = 1 .. Len(Sql.body)
  BY <1>1, HandHoldsScript, ScriptIsSequence DEF Control, Busy, Active
<1>3. at \in Nat /\ at + 1 \in DOMAIN Sql.body
  BY <1>1, <1>2 DEF Control, Typed
<1>4. /\ ~IsTransactionControl(Kind(n))
      /\ Mode = "forbidden" => ~BreaksRunnerSession(Kind(n))
  BY <1>1, <1>3, Owned DEF Active
<1> HIDE DEF n
<1>5. tx' = tx
  BY <1>1, <1>4, OthersStay DEF Effect
<1>6. n.node # "DiscardStmt"
  <2> SUFFICES ASSUME n.node = "DiscardStmt" PROVE FALSE
    OBVIOUS
  <2>1. Mode # "forbidden"
    BY <1>4, DiscardIsKnown
  <2>2. tx = "open"
    <3>1. Mode = "required"
      BY <2>1 DEF Mode, Control, Typed
    <3>. QED
      BY <1>1, <3>1 DEF Control, InHand, Active
  <2>3. n \in RefusedInBlock
    BY <1>2, <1>3, DiscardAssumption DEF n
  <2>. QED
    BY <1>1, <2>2, <2>3 DEF Refused, InBlock
<1>7. PICK k \in 0 .. 1 : Say(k)
  BY DEF Execute
<1>8. said' \in Seq(Nat) /\ stream' \in Seq(Nat)
  BY <1>7, SaySays DEF Control
<1>9. Typed'
  BY <1>1, <1>3, <1>8 DEF Control, Typed, Present
<1>10. Steps'
  BY <1>1 DEF Control, Steps, Busy, Active, First, Second, Present, Role
<1>11. Checked'
  BY <1>1 DEF Control, Checked, Present, Valid, Findings
<1>12. InHand'
  BY <1>1, <1>2, <1>3, <1>5 DEF Control, InHand, Active, Sound, Mode, Role, Sql
<1>13. RanWithin' /\ NoFalseGreen'
  BY <1>1 DEF Control, RanWithin, NoFalseGreen
<1>14. LockOutlivesTheScripts'
  <2>1. lock /\ lock' = (lock /\ n.node # "DiscardStmt")
    BY <1>1 DEF Control, LockOutlivesTheScripts, Effect
  <2>. QED
    BY <1>6, <2>1 DEF LockOutlivesTheScripts
<1>. QED
  BY <1>9, <1>10, <1>11, <1>12, <1>13, <1>14 DEF Control

LEMMA RejectControls == ASSUME Control, Reject, This \in DOMAIN said PROVE Control'
<1>1. /\ pc = "running" /\ pc' = "rejected"
      /\ UNCHANGED <<cmd, files, terms, queue, report, tx, at, lock, inbox, cursor>>
  BY DEF Reject, server
<1>2. PICK k \in 0 .. 1 : Say(k)
  BY DEF Reject
<1>3. said' \in Seq(Nat) /\ stream' \in Seq(Nat)
  BY <1>2, SaySays DEF Control
<1>4. Typed'
  BY <1>1, <1>3 DEF Control, Typed, Present
<1>5. Steps'
  BY <1>1 DEF Control, Steps, Busy, Active, First, Second, Present, Role
<1>6. Checked'
  BY <1>1 DEF Control, Checked, Present, Valid, Findings
<1>7. InHand'
  BY <1>1 DEF Control, InHand, Active, Sound, Mode, Role, Sql
<1>8. RanWithin' /\ NoFalseGreen' /\ LockOutlivesTheScripts'
  BY <1>1 DEF Control, RanWithin, NoFalseGreen, LockOutlivesTheScripts
<1>. QED
  BY <1>4, <1>5, <1>6, <1>7, <1>8 DEF Control

\* A message changes hands.
LEMMA PumpMoves ==
    ASSUME Typed, Pump
    PROVE  /\ stream' \in Seq(Nat) /\ inbox' \in Seq(Nat)
           /\ Len(stream') = Len(stream) - 1 /\ Len(inbox') = Len(inbox) + 1
           /\ Len(stream) \in Nat /\ Len(inbox) \in Nat /\ Len(stream) # 0
           /\ \A i \in 1 .. Len(inbox) : inbox'[i] = inbox[i]
           /\ inbox'[Len(inbox) + 1] = stream[1]
           /\ \A i \in 1 .. Len(stream') : stream'[i] = stream[i + 1]
<1>1. /\ stream # <<>> /\ stream \in Seq(Nat) /\ inbox \in Seq(Nat)
      /\ inbox' = Append(inbox, Head(stream)) /\ stream' = Tail(stream)
  BY DEF Pump, Typed
<1>2. /\ Head(stream) \in Nat /\ Tail(stream) \in Seq(Nat) /\ Len(Tail(stream)) = Len(stream) - 1
      /\ \A i \in 1 .. Len(Tail(stream)) : Tail(stream)[i] = stream[i + 1]
  BY <1>1, HeadTailProperties
<1>3. /\ Append(inbox, Head(stream)) \in Seq(Nat)
      /\ Len(Append(inbox, Head(stream))) = Len(inbox) + 1
      /\ \A i \in 1 .. Len(inbox) : Append(inbox, Head(stream))[i] = inbox[i]
      /\ Append(inbox, Head(stream))[Len(inbox) + 1] = Head(stream)
  BY <1>1, <1>2, AppendProperties
<1>4. Head(stream) = stream[1] /\ Len(stream) \in Nat /\ Len(inbox) \in Nat /\ Len(stream) # 0
  BY <1>1, LenProperties, EmptySeq
<1>. QED
  BY <1>1, <1>2, <1>3, <1>4

LEMMA PumpControls == ASSUME Control, Pump PROVE Control'
<1>1. UNCHANGED <<pc, cmd, files, terms, queue, report, tx, at, lock, cursor, said>>
  BY DEF Pump, process, server, history
<1>2. Typed'
  BY <1>1, PumpMoves DEF Control, Typed, Present
<1>3. Steps'
  BY <1>1 DEF Control, Steps, Busy, Active, First, Second, Present, Role
<1>4. Checked'
  BY <1>1 DEF Control, Checked, Present, Valid, Findings
<1>5. InHand'
  BY <1>1 DEF Control, InHand, Active, Sound, Mode, Role, Sql
<1>6. RanWithin' /\ NoFalseGreen' /\ LockOutlivesTheScripts'
  BY <1>1 DEF Control, RanWithin, NoFalseGreen, LockOutlivesTheScripts
<1>. QED
  BY <1>2, <1>3, <1>4, <1>5, <1>6 DEF Control

LEMMA EndsControl ==
    ASSUME Control, Unsound \/ Succeed \/ Fail \/ Lose
    PROVE  Control'
<1>1. CASE Unsound
  <2>1. Busy /\ at' = 0 /\ Ended("failed") /\ UNCHANGED <<lock, stream>> /\ said' = Append(said, 0)
    BY <1>1 DEF Unsound, Busy
  <2>2. Len(Sql.body) \in Nat
    BY <2>1, HandHoldsScript, ScriptIsSequence DEF Control
  <2>3. said' \in Seq(Nat) /\ stream' \in Seq(Nat)
    BY <2>1 DEF Control, Typed
  <2>. QED
    BY <2>1, <2>2, <2>3, EndedControls
<1>2. CASE Succeed
  <2>1. Busy /\ Active /\ at = Len(Sql.body) /\ at' = at /\ Ended("succeeded")
        /\ UNCHANGED <<lock, stream, said>>
    BY <1>2 DEF Succeed, Busy, Active
  <2>2. at \in Nat /\ Sound /\ stream \in Seq(Nat) /\ said \in Seq(Nat)
    BY <2>1 DEF Control, Typed, InHand
  <2>. QED
    BY <2>1, <2>2, EndedControls
<1>3. CASE Fail \/ Lose
  <2>1. Busy /\ Active /\ at' = at /\ Ended("failed") /\ stream' \in {stream, <<>>} /\ said' = said
    BY <1>3 DEF Fail, Lose, Busy, Active
  <2>2. at \in Nat /\ at <= Len(Sql.body) /\ stream' \in Seq(Nat) /\ said \in Seq(Nat)
    BY <2>1, EmptySeq DEF Control, Typed, InHand
  <2>. QED
    BY <2>1, <2>2, EndedControls
<1>. QED
  BY <1>1, <1>2, <1>3

LEMMA EndControls == ASSUME Control, End PROVE Control'
<1>1. /\ pc' = "idle" /\ cmd' = "none" /\ files' = NoFiles /\ terms' = NoTerms
      /\ report' = <<>> /\ at' = 0 /\ inbox' = <<>> /\ cursor' = 0 /\ said' = <<>>
      /\ stream' = stream
  BY DEF End
<1>2. Typed'
  BY <1>1, EmptySeq DEF Control, Typed, NoTerms, Present, NoFiles
<1>3. Steps' /\ Checked' /\ InHand' /\ RanWithin'
  BY <1>1 DEF Steps, Checked, InHand, RanWithin, Busy, Active
<1>. QED
  BY <1>1, <1>2, <1>3 DEF Control, NoFalseGreen, LockOutlivesTheScripts

LEMMA RestControls ==
    ASSUME Control, UNCHANGED <<process, server, messages, history>>
    PROVE  Control'
<1>1. UNCHANGED <<pc, cmd, files, terms, queue, report, tx, at, lock, stream, inbox, cursor, said>>
  BY DEF process, server, messages, history
<1>2. Typed' /\ Steps' /\ Checked'
  BY <1>1 DEF Control, Typed, Steps, Checked, Busy, Active, First, Second, Present, Role, Valid, Findings
<1>3. InHand'
  BY <1>1 DEF Control, InHand, Active, Sound, Mode, Role, Sql
<1>. QED
  BY <1>1, <1>2, <1>3 DEF Control, RanWithin, NoFalseGreen, LockOutlivesTheScripts

(***************************************************************************)
(* Messages: those of the script in hand are the ones not yet taken.       *)
(***************************************************************************)
Pending == Len(inbox) - cursor

Messages ==
    /\ pc = "idle" => said = <<>>
    /\ pc = "gate" => Len(said) = Len(report) /\ cursor = Len(inbox)
    /\ ~Active => stream = <<>>
    /\ Active =>
        /\ Len(said) = This
        /\ \A k \in cursor + 1 .. Len(inbox) : inbox[k] = This
        /\ \A k \in DOMAIN stream : stream[k] = This
        /\ Pending + Len(stream) = said[This]
    /\ MessagesBelong

LEMMA InHandIsLast ==
    ASSUME Control, Messages, Active
    PROVE  This \in DOMAIN said /\ \A i \in 1 .. Len(report) : i \in DOMAIN said \ {This}
<1>1. report \in Seq(Entry) /\ said \in Seq(Nat)
  BY DEF Control, Typed
<1>2. Len(report) \in Nat /\ DOMAIN said = 1 .. Len(said)
  BY <1>1, LenProperties
<1>. QED
  BY <1>2 DEF Messages, This

\* What was said of the scripts before stays, and so do their entries.
LEMMA BelongingStays ==
    ASSUME Control, Messages, report' = report, lock' => lock,
           \A i \in 1 .. Len(report) : said'[i] = said[i]
    PROVE  MessagesBelong'
<1>1. DOMAIN report = 1 .. Len(report)
  BY LenProperties DEF Control, Typed
<1>. QED
  BY <1>1 DEF Messages, MessagesBelong

LEMMA StartsSilent == Init => Messages
BY EmptySeq DEF Init, Messages, Active, MessagesBelong

LEMMA EndedBelongs ==
    ASSUME Control, Messages, Busy, NEW status \in {"succeeded", "failed"}, Ended(status),
           at' \in Nat, stream' = <<>>, Len(said') = This, lock' => lock,
           \A i \in 1 .. Len(report) : said'[i] = said[i],
           \A k \in cursor + 1 .. Len(inbox) : inbox[k] = This,
           Pending <= said'[This], lock' => Pending = said'[This]
    PROVE  Messages'
<1>1. /\ cursor' = IF Role = "test" THEN cursor ELSE Len(inbox)
      /\ queue' = IF status = "succeeded" THEN Tail(queue) ELSE <<>>
      /\ pc' = IF queue' = <<>> THEN "done" ELSE "gate"
      /\ inbox' = inbox
  BY DEF Ended
<1>2. /\ Len(report) \in Nat
      /\ \A i \in 1 .. Len(report) : report'[i] = report[i]
      /\ report'[This] = Now(status) /\ Len(report') = This
      /\ DOMAIN report = 1 .. Len(report) /\ DOMAIN report' = 1 .. Len(report')
  BY ReportGrows DEF This
<1>3. MessagesBelong'
  <2> SUFFICES ASSUME NEW i \in DOMAIN report', report'[i].role # "test"
               PROVE  /\ \A k \in DOMAIN report'[i].messages : report'[i].messages[k] = i
                      /\ Len(report'[i].messages) <= said'[i]
                      /\ lock' => Len(report'[i].messages) = said'[i]
    BY DEF MessagesBelong
  <2>1. CASE i \in 1 .. Len(report)
    BY <1>2, <2>1 DEF Messages, MessagesBelong
  <2>2. CASE i = This
    <3>1. report'[i].messages = Taken /\ report'[i].role = Role
      BY <1>2, <2>2 DEF Now
    <3>2. /\ Taken \in Seq(Nat) /\ Len(Taken) = Pending
          /\ \A k \in 1 .. Len(Taken) : Taken[k] = inbox[cursor + k]
      BY <3>1, Collected DEF Control, Pending
    <3>3. DOMAIN Taken = 1 .. Len(Taken) /\ cursor \in Nat /\ Len(inbox) \in Nat
      BY <3>2, LenProperties DEF Control, Typed
    <3>4. \A k \in DOMAIN Taken : Taken[k] = This
      <4> SUFFICES ASSUME NEW k \in 1 .. Len(Taken) PROVE Taken[k] = This
        BY <3>3
      <4>1. cursor + k \in cursor + 1 .. Len(inbox)
        BY <3>2, <3>3 DEF Pending
      <4>. QED
        BY <3>2, <4>1
    <3>. QED
      BY <2>2, <3>1, <3>2, <3>4
  <2>. QED
    BY <1>2, <2>1, <2>2 DEF This
<1>4. pc' = "gate" => Role # "test"
  <2> SUFFICES ASSUME pc' = "gate" PROVE Role # "test"
    OBVIOUS
  <2>1. Tail(queue) # <<>>
    BY <1>1
  <2>. QED
    BY <2>1, Short DEF Control, Steps, First, Second, Role
<1>. QED
  BY <1>1, <1>2, <1>3, <1>4 DEF Messages, Active, This

LEMMA StepsBelong == ASSUME Control, Messages, Next PROVE Messages'
<1>1. ASSUME NEW c \in Roles, Start(c) PROVE Messages'
  <2>1. /\ pc = "idle" /\ pc' = "gate" /\ cursor' = Len(inbox')
        /\ UNCHANGED <<report, stream, said>>
    BY <1>1 DEF Start, history
  <2>2. report = <<>> /\ said = <<>> /\ stream = <<>>
    BY <2>1 DEF Control, Steps, Messages, Active
  <2>. QED
    BY <2>1, <2>2, EmptySeq DEF Messages, Active, MessagesBelong
<1>2. CASE Send
  <2>1. /\ pc = "gate" /\ pc' = "running" /\ said' = Append(said, 0)
        /\ UNCHANGED <<report, lock, stream, inbox, cursor>>
    BY <1>2 DEF Send, messages
  <2>2. /\ stream = <<>> /\ Len(said) = Len(report) /\ cursor = Len(inbox)
        /\ said \in Seq(Nat) /\ Len(report) \in Nat /\ Len(inbox) \in Nat
    BY <2>1, LenProperties DEF Control, Typed, Messages, Active
  <2>3. /\ Len(said') = Len(said) + 1 /\ said'[Len(said) + 1] = 0
        /\ \A i \in 1 .. Len(said) : said'[i] = said[i]
    BY <2>1, <2>2, AppendProperties
  <2>4. MessagesBelong'
    BY <2>1, <2>2, <2>3, BelongingStays
  <2>. QED
    BY <2>1, <2>2, <2>3, <2>4, EmptySeq DEF Messages, Active, Pending, This
<1>3. CASE Unsound
  <2>1. /\ pc = "gate" /\ Busy /\ Ended("failed") /\ at' = 0 /\ said' = Append(said, 0)
        /\ UNCHANGED <<lock, stream>>
    BY <1>3 DEF Unsound, Busy
  <2>2. /\ stream = <<>> /\ Len(said) = Len(report) /\ cursor = Len(inbox)
        /\ said \in Seq(Nat) /\ Len(report) \in Nat /\ Len(inbox) \in Nat
    BY <2>1, LenProperties DEF Control, Typed, Messages, Active
  <2>3. /\ Len(said') = Len(said) + 1 /\ said'[Len(said) + 1] = 0
        /\ \A i \in 1 .. Len(said) : said'[i] = said[i]
    BY <2>1, <2>2, AppendProperties
  <2>. QED
    BY <2>1, <2>2, <2>3, EndedBelongs DEF This, Pending
<1>4. CASE Execute \/ Reject
  <2>0. Active /\ (lock' => lock)
    <3>1. CASE Execute
      <4>1. pc = "running" /\ Effect(Sql.body[at + 1])
        BY <3>1 DEF Execute
      <4>2. lock' => lock
        BY <4>1 DEF Effect
      <4>. QED
        BY <4>1, <4>2 DEF Active
    <3>2. CASE Reject
      <4>1. pc = "running" /\ lock' = lock
        BY <3>2 DEF Reject, server
      <4>. QED
        BY <4>1 DEF Active
    <3>. QED
      BY <1>4, <3>1, <3>2
  <2>1. pc' \in {"running", "rejected"} /\ UNCHANGED <<report, inbox, cursor>>
    BY <1>4 DEF Execute, Reject, process
  <2>2. PICK k \in 0 .. 1 : Say(k)
    BY <1>4 DEF Execute, Reject
  <2>3. This \in DOMAIN said /\ \A i \in 1 .. Len(report) : i \in DOMAIN said \ {This}
    BY <2>0, InHandIsLast
  <2>4. /\ Len(said') = Len(said) /\ said'[This] = said[This] + k
        /\ \A i \in DOMAIN said \ {This} : said'[i] = said[i]
        /\ Len(stream') = Len(stream) + k
        /\ \A i \in DOMAIN stream' : (i \in DOMAIN stream /\ stream'[i] = stream[i]) \/ stream'[i] = This
    BY <2>2, <2>3, SaySays DEF Control
  <2>5. MessagesBelong'
    BY <2>0, <2>1, <2>3, <2>4, BelongingStays
  <2>6. Len(inbox) \in Nat /\ Len(stream) \in Nat /\ cursor \in Nat /\ said[This] \in Nat
    BY <2>3, ElementOfSeq, LenProperties DEF Control, Typed
  <2>. QED
    BY <2>0, <2>1, <2>4, <2>5, <2>6 DEF Messages, Active, Pending, This
<1>5. CASE Pump
  <2>1. UNCHANGED <<pc, report, lock, cursor, said>> /\ stream # <<>>
    BY <1>5 DEF Pump, process, server, history
  <2>2. /\ Len(stream') = Len(stream) - 1 /\ Len(inbox') = Len(inbox) + 1
        /\ stream' \in Seq(Nat) /\ Len(stream) \in Nat /\ Len(inbox) \in Nat /\ Len(stream) # 0
        /\ \A i \in 1 .. Len(inbox) : inbox'[i] = inbox[i]
        /\ inbox'[Len(inbox) + 1] = stream[1]
        /\ \A i \in 1 .. Len(stream') : stream'[i] = stream[i + 1]
    BY <1>5, PumpMoves DEF Control
  <2>3. DOMAIN stream = 1 .. Len(stream) /\ DOMAIN stream' = 1 .. Len(stream') /\ cursor \in Nat
    BY <2>2, LenProperties DEF Control, Typed
  <2>4. Active
    BY <2>1 DEF Messages
  <2>5. MessagesBelong'
    BY <2>1, BelongingStays
  <2>6. \A k \in DOMAIN stream : stream[k] = This
    BY <2>4 DEF Messages
  <2>7. \A k \in DOMAIN stream' : stream'[k] = This
    <3> SUFFICES ASSUME NEW k \in DOMAIN stream' PROVE stream'[k] = This
      OBVIOUS
    <3>1. k \in 1 .. Len(stream') /\ k + 1 \in DOMAIN stream
      BY <2>2, <2>3
    <3>. QED
      BY <2>2, <2>6, <3>1
  <2>8. \A k \in cursor + 1 .. Len(inbox') : inbox'[k] = This
    <3>1. \A k \in cursor + 1 .. Len(inbox) : inbox[k] = This
      BY <2>4 DEF Messages
    <3>2. stream[1] = This
      BY <2>2, <2>3, <2>6
    <3> SUFFICES ASSUME NEW k \in cursor + 1 .. Len(inbox') PROVE inbox'[k] = This
      OBVIOUS
    <3>3. (k \in cursor + 1 .. Len(inbox) /\ k \in 1 .. Len(inbox)) \/ k = Len(inbox) + 1
      BY <2>2, <2>3
    <3>. QED
      BY <2>2, <3>1, <3>2, <3>3
  <2>9. Pending' + Len(stream') = said[This]
    BY <2>1, <2>2, <2>3, <2>4 DEF Messages, Pending
  <2>. QED
    BY <2>1, <2>4, <2>5, <2>7, <2>8, <2>9 DEF Messages, Active, This
<1>6. CASE Succeed \/ Fail \/ Lose
  <2>1. /\ Active /\ Busy /\ at' = at /\ \E status \in {"succeeded", "failed"} : Ended(status)
        /\ said' = said /\ stream' = <<>> /\ (lock' => lock) /\ (lock' => stream = <<>>)
    BY <1>6 DEF Succeed, Fail, Lose, Active, Busy, Answered
  <2>2. Len(stream) \in Nat /\ (stream = <<>> => Len(stream) = 0) /\ at \in Nat
        /\ Len(inbox) \in Nat /\ cursor \in Nat
    BY EmptySeq, LenProperties DEF Control, Typed
  <2>3. Pending <= said[This] /\ (stream = <<>> => Pending = said[This])
    BY <2>1, <2>2 DEF Messages, Pending
  <2>. QED
    BY <2>1, <2>2, <2>3, EndedBelongs DEF Messages
<1>7. CASE End
  BY <1>7, EmptySeq DEF End, Messages, Active, MessagesBelong
<1>8. CASE Resolve
  BY <1>8 DEF Resolve, process, server, messages, history, Messages, Active, MessagesBelong, Pending, This
<1>. QED
  BY <1>1, <1>2, <1>3, <1>4, <1>5, <1>6, <1>7, <1>8 DEF Next

(***************************************************************************)
(* Rows: what a script has written is held back until its row is written.  *)
(***************************************************************************)
HasWritten == \E s \in 1 .. at : Writes(Sql.body[s])

Rows ==
    /\ pc = "idle" => kept = {}
    /\ Active /\ Mode = "forbidden" => row = "attempt" /\ ~dirty /\ (HasWritten => 1 \in kept)
    /\ Active /\ Mode = "required" => (HasWritten => dirty)
    /\ RowsAndRowAgree

\* A migration's own script is the first of its run, and any other is run in a
\* transaction.
LEMMA OwnComesFirst ==
    ASSUME Control, Busy
    PROVE  /\ Role \in {"deploy", "revert"} => report = <<>> /\ This = 1 /\ cmd = Role
           /\ Role # "deploy" => Mode = "required"
           /\ Role = "deploy" => Mode = terms.mode
           /\ Mode \in {"required", "forbidden"}
<1>1. /\ report = <<>> => Role = cmd
      /\ report # <<>> => Role = "verify"
  BY HandHoldsScript DEF Control
<1>. QED
  BY <1>1, EmptySeq DEF This, Mode, Control, Typed

LEMMA RowsStart == Init => Rows
BY DEF Init, Rows, Active, RowsAndRowAgree

\* A step that changes neither rows nor row, nor ends a script, keeps the two
\* in agreement.
LEMMA AgreementStays ==
    ASSUME Rows, UNCHANGED <<cmd, files, terms, report>>,
           row' = row \/ ~\E i \in DOMAIN report : report[i].role \in {"deploy", "revert"},
           kept \subseteq kept',
           \A i \in kept' :
              /\ cmd \in {"deploy", "revert"} /\ i = 1
              /\ cmd = "deploy" => row' \in IF terms.mode = "required" THEN {"applied"}
                                            ELSE {"attempt", "applied"}
              /\ cmd = "revert" => row' = "none"
    PROVE  RowsAndRowAgree'
BY DEF Rows, RowsAndRowAgree

LEMMA RunningKeepsRows == ASSUME Control, Rows, Execute \/ Reject PROVE Rows'
<1> DEFINE n == Sql.body[at + 1]
<1>1. Active /\ Busy /\ pc = "running" /\ at \in Nat /\ at < Len(Sql.body)
  BY DEF Execute, Reject, Active, Busy, Control, Typed
<1>2. /\ Mode = "required" => tx = "open"
      /\ Mode = "forbidden" => tx = "none" /\ This = 1 /\ cmd = "deploy" /\ terms.mode = "forbidden"
      /\ Mode \in {"required", "forbidden"}
  BY <1>1, OwnComesFirst DEF Control, InHand
<1>3. Leaves(n) = "statement"
  <2>1. Len(Sql.body) \in Nat /\ DOMAIN Sql.body = 1 .. Len(Sql.body)
    BY <1>1, HandHoldsScript, ScriptIsSequence DEF Control
  <2>2. at + 1 \in DOMAIN Sql.body
    BY <1>1, <2>1
  <2>. QED
    BY <1>1, <2>2, Owned, OthersStay
<1>4. UNCHANGED <<row, cmd, files, terms, queue, report>> /\ pc' \in {"running", "rejected"}
  BY <1>1 DEF Execute, Reject, process
<1>5. kept \subseteq kept' /\ kept' \subseteq kept \cup {This} /\ (tx = "open" => kept' = kept)
  <2>1. CASE Execute
    <3>1. Effect(n)
      BY <2>1 DEF Execute
    <3>. QED
      BY <1>3, <3>1 DEF Effect
  <2>2. CASE Reject
    BY <2>2 DEF Reject
  <2>. QED
    BY <2>1, <2>2
<1>6. RowsAndRowAgree'
  <2> SUFFICES ASSUME NEW i \in kept'
               PROVE  /\ cmd \in {"deploy", "revert"} /\ i = 1
                      /\ cmd = "deploy" => row' \in IF terms.mode = "required" THEN {"applied"}
                                                    ELSE {"attempt", "applied"}
                      /\ cmd = "revert" => row' = "none"
    BY <1>4, <1>5, AgreementStays
  <2>1. CASE i \in kept
    BY <1>4, <2>1 DEF Rows, RowsAndRowAgree
  <2>2. CASE i \notin kept
    <3>1. i = This /\ Mode = "forbidden"
      BY <1>2, <1>5, <2>2
    <3>. QED
      BY <1>1, <1>2, <1>4, <3>1 DEF Rows
  <2>. QED
    BY <2>1, <2>2
<1>7. UNCHANGED <<Sql, Mode>>
  BY <1>4 DEF Sql, Mode, Role
<1>8. CASE Execute
  <2> HIDE DEF n
  <2>1. Effect(n) /\ at' = at + 1
    BY <1>8 DEF Execute, n
  <2>2. HasWritten' => HasWritten \/ Writes(n)
    BY <1>1, <1>7, <2>1 DEF HasWritten, n
  <2>3. CASE Mode = "required"
    <3>1. tx = "open" /\ Mode' = "required" /\ (HasWritten => dirty)
      BY <1>1, <1>2, <1>7, <2>3 DEF Rows
    <3>2. HasWritten' => dirty'
      BY <1>3, <2>1, <2>2, <3>1 DEF Effect
    <3>. QED
      BY <1>4, <1>6, <3>1, <3>2 DEF Rows
  <2>4. CASE Mode = "forbidden"
    <3>1. tx = "none" /\ This = 1 /\ Mode' = "forbidden" /\ row = "attempt" /\ ~dirty
          /\ (HasWritten => 1 \in kept)
      BY <1>1, <1>2, <1>7, <2>4 DEF Rows
    <3>2. ~dirty'
      BY <1>3, <2>1, <3>1 DEF Effect
    <3>3. HasWritten' => 1 \in kept'
      BY <1>3, <1>5, <2>1, <2>2, <3>1 DEF Effect
    <3>. QED
      BY <1>4, <1>6, <3>1, <3>2, <3>3 DEF Rows
  <2>. QED
    BY <1>2, <2>3, <2>4
<1>9. CASE Reject
  <2>1. UNCHANGED <<at, dirty>>
    BY <1>9 DEF Reject, server
  <2>2. HasWritten' = HasWritten
    BY <1>7, <2>1 DEF HasWritten
  <2>. QED
    BY <1>1, <1>4, <1>5, <1>6, <1>7, <2>1, <2>2 DEF Rows
<1>. QED
  BY <1>8, <1>9

\* A script that ends leaves the rows and the row as they were, or commits both.
LEMMA EndedAgrees ==
    ASSUME Control, Rows, Busy, NEW status \in {"succeeded", "failed"}, Ended(status),
           at' = at \/ status = "failed", at' \in Nat,
           \/ UNCHANGED <<row, kept>> /\ (Commits => status = "failed")
           \/ Active /\ Commits /\ Commit
    PROVE  Rows'
<1>1. /\ pc' \in {"gate", "done"} /\ UNCHANGED <<cmd, files, terms>>
  BY DEF Ended
<1>2. /\ Len(report) \in Nat
      /\ \A i \in 1 .. Len(report) : report'[i] = report[i]
      /\ report'[This] = Now(status) /\ Len(report') = This
      /\ DOMAIN report = 1 .. Len(report) /\ DOMAIN report' = 1 .. Len(report')
  BY ReportGrows DEF This
<1>3. CASE UNCHANGED <<row, kept>> /\ (Commits => status = "failed")
  <2>1. ASSUME NEW i \in DOMAIN report', report'[i].role \in {"deploy", "revert"},
               report'[i].status = "succeeded"
        PROVE  i \in DOMAIN report /\ report'[i] = report[i]
    <3>1. i # This
      BY <1>2, <1>3, <2>1 DEF Now, Commits
    <3>. QED
      BY <1>2, <3>1 DEF This
  <2>2. RowsAndRowAgree'
    BY <1>1, <1>3, <2>1 DEF Rows, RowsAndRowAgree
  <2>. QED
    BY <1>1, <2>2 DEF Rows, Active
<1>4. CASE Active /\ Commits /\ Commit
  <2>1. report = <<>> /\ This = 1 /\ cmd = Role /\ Role \in {"deploy", "revert"}
        /\ Mode \in {"required", "forbidden"}
    BY <1>4, OwnComesFirst DEF Commits
  <2>2. /\ row' = IF Role = "deploy" THEN "applied" ELSE "none"
        /\ kept' = IF dirty THEN kept \cup {This} ELSE kept
    BY <1>4 DEF Commit
  <2>3. \A i \in kept' : i = 1
    BY <2>1, <2>2 DEF Rows, RowsAndRowAgree
  <2>4. HasWritten => 1 \in kept'
    BY <1>4, <2>1, <2>2 DEF Rows
  <2>5. \A i \in DOMAIN report' : i = 1 /\ report'[i] = Now(status)
    BY <1>2, <2>1 DEF This
  <2>6. status = "succeeded" /\ (\E s \in 1 .. at' : Writes(files'[Role].body[s])) => 1 \in kept'
    BY <1>1, <2>4 DEF HasWritten, Sql
  <2>7. Now(status).role = Role /\ Now(status).status = status /\ Now(status).ran = at'
    BY DEF Now
  <2>8. RowsAndRowAgree'
    BY <1>1, <2>1, <2>2, <2>3, <2>5, <2>6, <2>7 DEF RowsAndRowAgree
  <2>. QED
    BY <1>1, <2>8 DEF Rows, Active
<1>. QED
  BY <1>3, <1>4

LEMMA StepsAgree == ASSUME Control, Rows, Next PROVE Rows'
<1>1. ASSUME NEW c \in Roles, Start(c) PROVE Rows'
  <2>1. pc = "idle" /\ pc' = "gate" /\ UNCHANGED <<report, kept>>
    BY <1>1 DEF Start, history
  <2>2. report = <<>> /\ kept = {}
    BY <2>1 DEF Control, Steps, Rows
  <2>. QED
    BY <2>1, <2>2 DEF Rows, Active, RowsAndRowAgree
<1>2. CASE Send
  <2>1. /\ Busy /\ pc' = "running" /\ dirty' = FALSE /\ at' = 0
        /\ row' = IF Mode = "forbidden" THEN "attempt" ELSE row
        /\ UNCHANGED <<cmd, files, terms, queue, report, kept>>
    BY <1>2 DEF Send, Busy
  <2>2. ~HasWritten' /\ Mode' = Mode
    BY <2>1 DEF HasWritten, Mode, Role
  <2>3. Mode = "forbidden" => report = <<>> /\ cmd = "deploy" /\ terms.mode = "forbidden"
    BY <2>1, OwnComesFirst
  <2>4. RowsAndRowAgree'
    BY <2>1, <2>3, EmptySeq DEF Rows, RowsAndRowAgree
  <2>. QED
    BY <2>1, <2>2, <2>4 DEF Rows
<1>3. CASE Unsound
  BY <1>3, EndedAgrees DEF Unsound, Busy
<1>4. CASE Succeed
  <2>1. Busy /\ Active /\ at' = at /\ at \in Nat /\ Ended("succeeded")
    BY <1>4 DEF Succeed, Busy, Active, Control, Typed
  <2>2. (Commits /\ Commit) \/ (~Commits /\ UNCHANGED <<row, kept>>)
    BY <1>4 DEF Succeed
  <2>. QED
    BY <2>1, <2>2, EndedAgrees
<1>5. CASE Fail \/ Lose
  <2>1. Busy /\ Active /\ at' = at /\ at \in Nat /\ Ended("failed")
    BY <1>5 DEF Fail, Lose, Busy, Active, Control, Typed
  <2>2. UNCHANGED <<row, kept>> \/ (Commits /\ Commit)
    BY <1>5 DEF Fail, Lose
  <2>. QED
    BY <2>1, <2>2, EndedAgrees
<1>6. CASE Pump
  <2>1. UNCHANGED <<row, process, server, history>>
    BY <1>6 DEF Pump
  <2>2. UNCHANGED <<row, pc, cmd, files, terms, queue, report, dirty, at, kept>>
    BY <2>1 DEF process, server, history
  <2>3. UNCHANGED <<HasWritten, Mode, RowsAndRowAgree>>
    BY <2>2 DEF HasWritten, Sql, Mode, Role, RowsAndRowAgree
  <2>. QED
    BY <2>2, <2>3 DEF Rows, Active
<1>7. CASE End
  BY <1>7 DEF End, Rows, Active, RowsAndRowAgree
<1>8. CASE Resolve
  <2>1. pc = "idle" /\ UNCHANGED <<pc, report, kept>>
    BY <1>8 DEF Resolve, process, history
  <2>2. report = <<>> /\ kept = {}
    BY <2>1 DEF Control, Steps, Rows
  <2>. QED
    BY <2>1, <2>2 DEF Rows, Active, RowsAndRowAgree
<1>. QED
  BY <1>1, <1>2, <1>3, <1>4, <1>5, <1>6, <1>7, <1>8, RunningKeepsRows DEF Next

(***************************************************************************)
(* Losses.                                                                 *)
(***************************************************************************)
LEMMA LossFollows == Control => LossIsOnRecord
<1> SUFFICES ASSUME Control, cmd = "deploy",
                    NEW i \in 1 .. (IF report = <<>> THEN at ELSE report[1].ran),
                    Destroys(files["deploy"].body[i])
             PROVE  /\ \E f \in Findings : f.role = "deploy" /\ f.at = i /\ f.code = "destructive"
                    /\ "destructive" \in terms.deny => "destructive" \in terms.allow
  BY DEF LossIsOnRecord
<1> DEFINE script == files["deploy"]
<1>1. Present("deploy") /\ Valid
  BY DEF Control, Checked
<1>2. script \in Scripts["deploy"]
  BY <1>1 DEF Control, Typed, Roles
<1>3. DOMAIN script.body = 1 .. Len(script.body) /\ Len(script.body) \in Nat
  BY <1>2, ScriptIsSequence DEF Roles
<1>4. i \in DOMAIN script.body
  <2>1. CASE report = <<>>
    <3>1. pc # "idle" /\ pc # "done" /\ (pc = "gate" => at = 0)
      BY <2>1 DEF Control, Steps
    <3>2. pc \in {"idle", "gate", "running", "rejected", "done"} /\ at \in Nat
      BY DEF Control, Typed
    <3>3. CASE pc = "gate"
      BY <2>1, <3>1, <3>3
    <3>4. CASE Active
      <4>1. at <= Len(Sql.body) /\ Role = "deploy"
        BY <2>1, <3>4, HandHoldsScript DEF Control, InHand, Busy
      <4>. QED
        BY <1>3, <2>1, <3>2, <4>1 DEF Sql
    <3>. QED
      BY <3>1, <3>2, <3>3, <3>4 DEF Active
  <2>2. CASE report # <<>>
    <3>1. report \in Seq(Entry) /\ 1 \in 1 .. Len(report)
      BY <2>2, EmptySeq, LenProperties DEF Control, Typed
    <3>2. report[1].ran \in Nat
      <4>1. report[1] \in Entry
        BY <3>1, ElementOfSeq
      <4>. QED
        BY <4>1 DEF Entry
    <3>3. report[1].ran <= Len(script.body)
      BY <2>2 DEF Control, RanWithin
    <3>. QED
      BY <1>3, <2>2, <3>2, <3>3
  <2>. QED
    BY <2>1, <2>2
<1>5. ~RunsNothing(script)
  <2>1. script.body # <<>>
    BY <1>2, <1>3, <1>4, ScriptIsSequence DEF Roles
  <2>. QED
    BY <2>1 DEF RunsNothing
<1>6. script.parses
  BY <1>1, <1>5 DEF Valid, ScriptErrors
<1>7. <<i, "destructive">> \in Warnings("deploy", script)
  <2>1. <<i, "destructive">> \in {<<i, c>> : c \in Risks(Kind(script.body[i]))}
    BY LossIsKnown
  <2>2. i \in {j \in DOMAIN script.body : script.parses /\ "deploy" = "deploy"}
    BY <1>4, <1>6
  <2>. QED
    BY <1>5, <2>1, <2>2 DEF Warnings
<1> DEFINE found == [role |-> "deploy", at |-> i, code |-> "destructive",
                     severity |-> Severity("destructive", terms.allow, terms.deny)]
<1>8. found \in Findings
  <2>1. "deploy" \in {x \in {"deploy", "revert", "verify"} : Present(x)}
    BY <1>1
  <2>2. found \in {[role |-> "deploy", at |-> w[1], code |-> w[2],
                    severity |-> Severity(w[2], terms.allow, terms.deny)] : w \in Warnings("deploy", script)}
    <3>1. PICK w \in Warnings("deploy", script) : w = <<i, "destructive">>
      BY <1>7
    <3>2. w[1] = i /\ w[2] = "destructive"
      BY <3>1
    <3>. QED
      BY <3>2
  <2> HIDE DEF found
  <2>. QED
    BY <2>1, <2>2 DEF Findings
<1>9. Severity("destructive", terms.allow, terms.deny) # "error"
  <2>1. found.severity # "error"
    BY <1>1, <1>8 DEF Valid
  <2>. QED
    BY <2>1
<1>10. "destructive" \in terms.deny => "destructive" \in terms.allow
  BY <1>9 DEF Severity
<1>11. found.role = "deploy" /\ found.at = i /\ found.code = "destructive"
  OBVIOUS
<1> HIDE DEF found
<1>. QED
  BY <1>8, <1>10, <1>11

(***************************************************************************)
(* Modes.                                                                  *)
(***************************************************************************)

\* What PostgreSQL refuses by name is what the classifier forbids.
LEMMA ForbiddenIsRefused ==
    ASSUME NEW n
    PROVE  ForbiddenInTransaction(Kind(n)) <=> RefusedByName(n)
<1>1. DOMAIN Constructs = {"CreatedbStmt", "DropdbStmt", "CreateTableSpaceStmt",
                           "DropTableSpaceStmt", "AlterSystemStmt", "DiscardStmt"}
  BY DEF Constructs
<1>2. CASE n.node = "IndexStmt"
  <2>1. Kind(n) = [is |-> "CreateIndex", concurrent |-> Flag(n, "concurrent")]
    BY <1>1, <1>2 DEF Kind
  <2>. QED
    BY <1>2, <2>1 DEF ForbiddenInTransaction, RefusedByName
<1>3. CASE n.node = "DropStmt"
  <2>1. Kind(n) = [is |-> "Drop", object |-> Object(Text(n, "removeType")),
                   concurrent |-> Flag(n, "concurrent")]
    BY <1>1, <1>3 DEF Kind
  <2>2. Object(Text(n, "removeType")) = "Index" <=> Text(n, "removeType") = "OBJECT_INDEX"
    BY DEF Object, Objects
  <2>. QED
    BY <1>3, <2>1, <2>2 DEF ForbiddenInTransaction, RefusedByName
<1>4. CASE n.node = "ReindexStmt"
  <2>1. Kind(n) = [is |-> "Reindex", concurrent |-> \E i \in DOMAIN Items(n, "params") :
                                                       n.params[i] = "concurrently"]
    BY <1>1, <1>4 DEF Kind
  <2>. QED
    BY <1>4, <2>1 DEF ForbiddenInTransaction, RefusedByName
<1>5. CASE n.node = "VacuumStmt"
  <2>1. CASE Flag(n, "is_vacuumcmd")
    <3>1. Kind(n) = [is |-> "Vacuum"]
      BY <1>1, <1>5, <2>1 DEF Kind
    <3>. QED
      BY <1>5, <2>1, <3>1 DEF ForbiddenInTransaction, RefusedByName
  <2>2. CASE ~Flag(n, "is_vacuumcmd")
    <3>1. Kind(n) = [is |-> "Other"]
      BY <1>1, <1>5, <2>2 DEF Kind
    <3>. QED
      BY <1>5, <2>2, <3>1 DEF ForbiddenInTransaction, RefusedByName
  <2>. QED
    BY <2>1, <2>2
<1>6. CASE n.node \in DOMAIN Constructs
  <2>1. Kind(n) = [is |-> "NonTransactional", construct |-> Constructs[n.node]]
    BY <1>1, <1>6 DEF Kind
  <2>. QED
    BY <1>1, <1>6, <2>1 DEF ForbiddenInTransaction, RefusedByName
<1>7. CASE n.node \notin {"IndexStmt", "DropStmt", "ReindexStmt", "VacuumStmt"} \cup DOMAIN Constructs
  <2>1. Kind(n).is \in {"TransactionControl", "AlterTable", "Rename", "Truncate", "Other"}
    BY <1>7 DEF Kind
  <2>. QED
    BY <1>1, <1>7, <2>1 DEF ForbiddenInTransaction, RefusedByName
<1>. QED
  BY <1>2, <1>3, <1>4, <1>5, <1>6, <1>7

\* What runs was checked against the mode it runs in, and is of the deployment.
LEMMA ModesFollow == Control => ModesFit
<1> SUFFICES ASSUME Control, pc = "running", Role = "deploy"
             PROVE  /\ \A i \in DOMAIN Sql.body :
                          InBlock /\ Sql.body[i] \in RefusedInBlock => Nameless(Sql.body[i])
                    /\ Mode = "forbidden" => Len(Sql.body) <= 1 /\ \A i \in DOMAIN Sql.body :
                                                                       Sql.body[i] \in RefusedInBlock
  BY DEF ModesFit
<1>1. cmd = "deploy" /\ Sql \in Scripts["deploy"] /\ Mode = terms.mode /\ Sql = files["deploy"]
  <2>1. Role \in {cmd, "verify"} /\ Sql \in Scripts[Role]
    BY HandHoldsScript DEF Control, Busy, Active
  <2>. QED
    BY <2>1 DEF Mode, Sql
<1>2. /\ Mode \in {"required", "forbidden"}
      /\ tx = IF Mode = "required" THEN "open" ELSE "none"
      /\ ScriptErrors("deploy", Mode, Sql) = {}
  BY <1>1 DEF Control, Typed, InHand, Active, Checked, Valid
<1>3. Len(Sql.body) \in Nat /\ DOMAIN Sql.body = 1 .. Len(Sql.body)
      /\ (Sql.body = <<>> <=> Len(Sql.body) = 0)
  BY <1>1, ScriptIsSequence DEF Roles
<1>4. CASE RunsNothing(Sql)
  BY <1>3, <1>4 DEF RunsNothing
<1>5. CASE ~RunsNothing(Sql)
  <2>1. ModeErrors(Mode, Sql) = {}
    <3>1. Sql.parses
      BY <1>2, <1>5 DEF ScriptErrors
    <3>. QED
      BY <1>2, <1>5, <3>1 DEF ScriptErrors
  <2>2. CASE Mode = "required"
    <3>1. \A i \in DOMAIN Sql.body : ~ForbiddenInTransaction(Kind(Sql.body[i]))
      BY <2>1, <2>2 DEF ModeErrors, Kinds
    <3>2. \A i \in DOMAIN Sql.body : ~RefusedByName(Sql.body[i])
      BY <3>1, ForbiddenIsRefused
    <3>. QED
      BY <1>1, <2>2, <3>2, RefusedAssumption
  <2>3. CASE Mode = "forbidden"
    <3>1. Len(Sql.body) = 1
      BY <2>1, <2>3 DEF ModeErrors
    <3>2. \A i \in DOMAIN Sql.body : ForbiddenInTransaction(Kind(Sql.body[i]))
      BY <2>1, <2>3, <3>1 DEF ModeErrors, Kinds
    <3>3. \A i \in DOMAIN Sql.body : RefusedByName(Sql.body[i])
      BY <3>2, ForbiddenIsRefused
    <3>4. ~InBlock
      BY <1>2, <2>3, <3>1 DEF InBlock
    <3>. QED
      BY <1>1, <3>1, <3>3, <3>4, RefusedAssumption
  <2>. QED
    BY <1>2, <2>2, <2>3
<1>. QED
  BY <1>4, <1>5

(***************************************************************************)
(* The theorems.                                                           *)
(***************************************************************************)
ScriptsInv == Control /\ Messages /\ Rows

LEMMA ScriptsInvHolds == Spec => []ScriptsInv
<1>1. Init => ScriptsInv
  BY ControlStarts, StartsSilent, RowsStart DEF ScriptsInv
<1>2. ScriptsInv /\ [Next]_vars => ScriptsInv'
  <2> SUFFICES ASSUME ScriptsInv, [Next]_vars PROVE ScriptsInv'
    OBVIOUS
  <2>1. CASE UNCHANGED vars
    <3>1. /\ UNCHANGED <<process, server, messages, history>>
          /\ UNCHANGED <<row, pc, cmd, files, terms, queue, report, tx, at, dirty, lock>>
          /\ UNCHANGED <<stream, inbox, cursor, kept, said>>
      BY <2>1 DEF vars, process, server, messages, history
    <3>2. Messages'
      BY <3>1 DEF ScriptsInv, Messages, Active, MessagesBelong, Pending, This
    <3>3. UNCHANGED <<HasWritten, Mode, RowsAndRowAgree>>
      BY <3>1 DEF HasWritten, Sql, Mode, Role, RowsAndRowAgree
    <3>4. Rows'
      BY <3>1, <3>3 DEF ScriptsInv, Rows, Active
    <3>. QED
      BY <3>1, <3>2, <3>4, RestControls DEF ScriptsInv
  <2>2. CASE Next
    <3>1. Control'
      <4>1. CASE Execute \/ Reject
        <5>1. Active
          BY <4>1 DEF Execute, Reject, Active
        <5>. QED
          BY <4>1, <5>1, InHandIsLast, ExecuteControls, RejectControls DEF ScriptsInv
      <4>2. CASE Resolve
        BY <4>2, RestControls DEF Resolve, ScriptsInv
      <4>. QED
        BY <2>2, <4>1, <4>2, StartControls, SendControls, PumpControls, EndsControl, EndControls
           DEF Next, ScriptsInv
    <3>. QED
      BY <2>2, <3>1, StepsBelong, StepsAgree DEF ScriptsInv
  <2>. QED
    BY <2>1, <2>2
<1>. QED
  BY <1>1, <1>2, PTL DEF Spec

\* What a deploy or a revert wrote is there exactly when the row says so, and
\* nothing that a verification or a test wrote is ever kept, whatever the files
\* hold, wherever the server fails and whenever the connection goes.
THEOREM RowsAlwaysAgree == Spec => []RowsAndRowAgree
<1>1. ScriptsInv => RowsAndRowAgree
  BY DEF ScriptsInv, Rows
<1>. QED
  BY <1>1, ScriptsInvHolds, PTL

\* No script that is sent gives the deployment lock back.
THEOREM LocksOutliveScripts == Spec => []LockOutlivesTheScripts
<1>1. ScriptsInv => LockOutlivesTheScripts
  BY DEF ScriptsInv, Control
<1>. QED
  BY <1>1, ScriptsInvHolds, PTL

\* A success is of a script that ran to its end, and never of an empty
\* verification or revert, though those files may change after they were checked.
THEOREM GreensAreTrue == Spec => []NoFalseGreen
<1>1. ScriptsInv => NoFalseGreen
  BY DEF ScriptsInv, Control
<1>. QED
  BY <1>1, ScriptsInvHolds, PTL

\* The messages in an entry are those of its own script, however late the driver
\* hands them over.
THEOREM MessagesAlwaysBelong == Spec => []MessagesBelong
<1>1. ScriptsInv => MessagesBelong
  BY DEF ScriptsInv, Messages
<1>. QED
  BY <1>1, ScriptsInvHolds, PTL

\* No deployment runs a statement that loses rows without a finding that says
\* so, nor against the project's policy without a reason.
THEOREM LossesAreOnRecord == Spec => []LossIsOnRecord
<1>1. ScriptsInv => LossIsOnRecord
  BY LossFollows DEF ScriptsInv
<1>. QED
  BY <1>1, ScriptsInvHolds, PTL

\* A deployment runs in the mode its statements need: none is refused for being
\* in a block, but those the classifier has no name for, and none runs without
\* a transaction that could have had one.
THEOREM ModesAlwaysFit == Spec => []ModesFit
<1>1. ScriptsInv => ModesFit
  BY ModesFollow DEF ScriptsInv
<1>. QED
  BY <1>1, ScriptsInvHolds, PTL

===============================================================================
