------------------------ MODULE OneTimeCommandsProofs -------------------------
(***************************************************************************)
(* A command is handed to one deploy, for any number of commands, deploys   *)
(* and phases.                                                              *)
(*                                                                         *)
(* HandedToOne alone is not inductive: the outcome of a command is written  *)
(* by id, so one has to know that the row a deploy is running is one it     *)
(* still has, and that a deploy that is over has none.  That is CurIsHeld.   *)
(* With it, a queued row is held by nobody,                                 *)
(* which is why neither a claim nor the editor can touch a row under a      *)
(* deploy's feet.  The second half is about what the table then remembers:  *)
(* a history that is final, counts that are never lost.                     *)
(***************************************************************************)
EXTENDS OneTimeCommands, TLAPS

Running == {"marked", "succeeded", "lost"}

CurIsHeld ==
    /\ \A d \in Deploy : pc[d] \in Running => cur[d] \in Command /\ Holds(d, cur[d])
    /\ \A d \in Deploy, k \in Command : Holds(d, k) => Live(d)

CommandInv == TypeOK /\ CurIsHeld /\ HandedToOne /\ ClaimedIsHeld

-----------------------------------------------------------------------------

\* An empty table satisfies the invariant.
LEMMA CommandInit == Init => CommandInv
<1> SUFFICES ASSUME Init PROVE CommandInv
  OBVIOUS
<1> USE CommandAssumption DEF Init
<1>1. TypeOK
  <2>1. NoRow("unborn") \in Row
    BY DEF NoRow, Blank, Row, Text, Phase, Kind, Status
  <2>2. 1 \in Phase /\ "native" \in Runtime
    BY DEF Phase, Runtime
  <2>3. QED
    BY <2>1, <2>2 DEF TypeOK, LivePoints
<1>2. CurIsHeld
  BY DEF CurIsHeld, Running, Holds
<1>3. HandedToOne
  BY DEF HandedToOne, Holds
<1>4. ClaimedIsHeld
  BY DEF ClaimedIsHeld, Is, NoRow
<1>5. QED
  BY <1>1, <1>2, <1>3, <1>4 DEF CommandInv

\* Where an UPDATE by id lands, and where the editor's statements do.
LEMMA UpdateKeepsType ==
  ASSUME row \in [Command -> Row], NEW k, NEW new \in Row, Update(k, new)
  PROVE  row' \in [Command -> Row]
  BY DEF Update

\* A row with one column rewritten is a row.
LEMMA RowFields ==
  ASSUME row \in [Command -> Row], NEW k \in Command
  PROVE  /\ \A s \in Status : [row[k] EXCEPT !.status = s] \in Row
         /\ \A h \in Deploy \union {None} : [row[k] EXCEPT !.holder = h] \in Row
         /\ \A s \in Status, h \in Deploy \union {None} :
              [row[k] EXCEPT !.status = s, !.holder = h] \in Row
         /\ \A t \in Text : [row[k] EXCEPT !.text = t] \in Row
         /\ [row[k] EXCEPT !.attempts = @ + 1] \in Row
         /\ row[k].text \in Text
<1> DEFINE r == row[k]
<1>1. r \in Row
  OBVIOUS
<1>2. /\ r = [status |-> r.status, holder |-> r.holder,
              attempts |-> r.attempts, text |-> r.text]
      /\ r.status \in Status /\ r.holder \in Deploy \union {None}
      /\ r.attempts \in Nat /\ r.text \in Text
  BY <1>1 DEF Row
<1> HIDE DEF r
<1>3. \A s \in Status : [r EXCEPT !.status = s] \in Row
  BY <1>1, <1>2 DEF Row
<1>4. \A h \in Deploy \union {None} : [r EXCEPT !.holder = h] \in Row
  BY <1>1, <1>2 DEF Row
<1>5. \A s \in Status, h \in Deploy \union {None} :
        [r EXCEPT !.status = s, !.holder = h] \in Row
  BY <1>1, <1>2 DEF Row
<1>6. \A t \in Text : [r EXCEPT !.text = t] \in Row
  BY <1>1, <1>2 DEF Row
<1>7. [r EXCEPT !.attempts = @ + 1] \in Row
  BY <1>1, <1>2 DEF Row
<1>8. QED
  BY <1>2, <1>3, <1>4, <1>5, <1>6, <1>7 DEF r

\* So is the row that is not there, with or without a text.
LEMMA NoRowIsRow ==
  ASSUME NEW s \in Status
  PROVE  /\ NoRow(s) \in Row
         /\ \A t \in Text : [NoRow(s) EXCEPT !.text = t] \in Row
<1>1. Blank \in Text
  BY CommandAssumption DEF Blank, Text, Phase, Kind
<1>2. QED
  BY <1>1 DEF NoRow, Row
-----------------------------------------------------------------------------

\* Every step keeps the columns, and what each deploy remembers, in their types.
LEMMA TypeStep ==
  ASSUME TypeOK, CurIsHeld, Next
  PROVE  TypeOK'
<1> USE DEF TypeOK
<1>1. ASSUME NEW d \in Deploy, NEW runtime \in Runtime, Claim(d, runtime)
      PROVE  TypeOK'
  <2>1. row' \in [Command -> Row]
    BY <1>1, RowFields DEF Claim, Status
  <2>2. pc' \in [Deploy -> LivePoints \union {"new", "ended"}]
    BY <1>1 DEF Claim, Goto, LivePoints
  <2>3. QED
    BY <1>1, <2>1, <2>2 DEF Claim, historyVars
<1>2. ASSUME NEW d \in Deploy, ReadBack(d)
      PROVE  TypeOK'
  <2>1. taken' \in [Deploy -> [Command -> Text \union {None}]]
    BY <1>2, RowFields DEF ReadBack
  <2>2. QED
    BY <1>2, <2>1 DEF ReadBack, Goto, LivePoints, historyVars
<1>3. ASSUME NEW d \in Deploy, NEW k \in Command, PassBlank(d, k)
      PROVE  TypeOK'
  <2>1. row' \in [Command -> Row]
    BY <1>3, RowFields, UpdateKeepsType DEF PassBlank, SetStatus, Status
  <2>2. QED
    BY <1>3, <2>1 DEF PassBlank, Forget, historyVars
<1>4. ASSUME NEW d \in Deploy, NEW k \in Command, Mark(d, k)
      PROVE  TypeOK'
  <2>1. row' \in [Command -> Row]
    BY <1>4, RowFields, UpdateKeepsType DEF Mark
  <2>2. QED
    BY <1>4, <2>1 DEF Mark, Goto, LivePoints, historyVars
<1>5. ASSUME NEW d \in Deploy, Run(d)
      PROVE  TypeOK'
  <2>1. cur[d] \in Command
    BY <1>5 DEF CurIsHeld, Run, At, Running
  <2>2. QED
    BY <1>5, <2>1 DEF Run, Goto, LivePoints
<1>6. ASSUME NEW d \in Deploy, Settle(d)
      PROVE  TypeOK'
  <2>1. cur[d] \in Command
    BY <1>6 DEF CurIsHeld, Settle, Running
  <2>2. PICK s \in Status : SetStatus(cur[d], s)
    BY <1>6 DEF Settle, Status
  <2>3. row' \in [Command -> Row]
    BY <2>1, <2>2, RowFields, UpdateKeepsType DEF SetStatus
  <2>4. QED
    BY <1>6, <2>1, <2>3 DEF Settle, Goto, Forget, LivePoints, historyVars
<1>7. ASSUME NEW d \in Deploy, NextPhase(d)
      PROVE  TypeOK'
  <2>1. phase[d] \in Phase /\ (phase[d] # LastPhase => phase[d] + 1 \in Phase)
    <3>1. \A p \in Phase : p # LastPhase => p + 1 \in Phase
      BY CommandAssumption DEF Phase
    <3>2. QED
      BY <3>1
  <2>2. phase' \in [Deploy -> Phase]
    BY <1>7, <2>1 DEF NextPhase
  <2>3. QED
    BY <1>7, <2>2 DEF NextPhase, Goto, LivePoints, historyVars
<1>8. ASSUME NEW d \in Deploy, Throw(d)
      PROVE  TypeOK'
  BY <1>8 DEF Throw, Goto, LivePoints
<1>9. ASSUME NEW D, Leave(D)
      PROVE  /\ pc' \in [Deploy -> LivePoints \union {"new", "ended"}]
             /\ built' \in [Deploy -> Runtime] /\ phase' \in [Deploy -> Phase]
             /\ taken' \in [Deploy -> [Command -> Text \union {None}]]
             /\ cur' \in [Deploy -> Command \union {None}]
  BY <1>9, CommandAssumption DEF Leave, Runtime, Phase
<1>10. \A k \in Command : Requeued(k) \in Row
  BY RowFields DEF Requeued, Status
<1>11. ASSUME NEW d \in Deploy, Release(d)
      PROVE  TypeOK'
  <2>1. row' \in [Command -> Row]
    BY <1>11, <1>10 DEF Release
  <2>2. QED
    BY <1>11, <1>9, <2>1 DEF Release, historyVars
<1>12. ASSUME NEW d \in Deploy, ReleaseFails(d)
      PROVE  TypeOK'
  BY <1>12, <1>9 DEF ReleaseFails
<1>13. ASSUME NEW keep \in SUBSET Command, EditCheck(keep)
      PROVE  TypeOK'
  BY <1>13 DEF EditCheck, deployVars, historyVars
<1>14. ASSUME NEW fresh \in SUBSET Command, NEW runtime \in Runtime, draft # None,
              NEW written \in [draft \union fresh -> Text],
              EditApply(fresh, written, runtime)
      PROVE  TypeOK'
  <2>1. ASSUME NEW k \in Command PROVE Replaced(k, fresh, written) \in Row
    <3>1. CASE k \in fresh
      <4>1. written[k] \in Text /\ "queued" \in Status
        BY <3>1 DEF Status
      <4>2. Replaced(k, fresh, written) = [NoRow("queued") EXCEPT !.text = written[k]]
        BY <1>14, <3>1 DEF Replaced, EditApply, Is
      <4>3. QED
        BY <4>1, <4>2, NoRowIsRow
    <3>2. CASE k \notin fresh /\ k \in draft
      <4>1. written[k] \in Text
        BY <3>2
      <4>2. Replaced(k, fresh, written) = [row[k] EXCEPT !.text = written[k]]
        BY <3>2 DEF Replaced
      <4>3. [row[k] EXCEPT !.text = written[k]] \in Row
        BY <4>1, RowFields
      <4>4. QED
        BY <4>2, <4>3
    <3>3. CASE k \notin fresh /\ k \notin draft
      BY <3>3, NoRowIsRow DEF Replaced, Status
    <3>4. QED
      BY <3>1, <3>2, <3>3
  <2>2. QED
    BY <1>14, <2>1 DEF EditApply, deployVars, historyVars
<1>15. CASE EditRefused
  BY <1>15 DEF EditRefused, deployVars, historyVars
<1>16. \A k \in Command : NoRow("gone") \in Row /\ [row[k] EXCEPT !.holder = None] \in Row
  BY RowFields, NoRowIsRow DEF Status
<1>17. ASSUME NEW old \in SUBSET Command, ClearHistory(old)
      PROVE  TypeOK'
  BY <1>17, <1>16 DEF ClearHistory, deployVars, historyVars
<1>18. CASE RemoveApp
  BY <1>18, <1>16 DEF RemoveApp, deployVars
<1>19. CASE RemoveProject
  BY <1>19, <1>16 DEF RemoveProject, deployVars, historyVars
<1>20. CASE PanelRestart
  <2>1. row' \in [Command -> Row]
    BY <1>20, <1>10 DEF PanelRestart
  <2>2. QED
    BY <1>20, <1>9, <2>1 DEF PanelRestart
<1>21. QED
  BY <1>1, <1>2, <1>3, <1>4, <1>5, <1>6, <1>7, <1>8, <1>11, <1>12, <1>13, <1>14,
     <1>15, <1>17, <1>18, <1>19, <1>20 DEF Next, DeployStep, EditStep
-----------------------------------------------------------------------------

\* The command a deploy is running is one it still has.
LEMMA CurStep ==
  ASSUME TypeOK, CurIsHeld, Next
  PROVE  CurIsHeld'
<1> USE DEF TypeOK, CurIsHeld, Running, Holds, Live, LivePoints
<1>1. ASSUME NEW d \in Deploy, NEW runtime \in Runtime, Claim(d, runtime)
      PROVE  CurIsHeld'
  BY <1>1 DEF Claim, Goto
<1>2. ASSUME NEW d \in Deploy, ReadBack(d)
      PROVE  CurIsHeld'
  BY <1>2 DEF ReadBack, Goto
<1>3. ASSUME NEW d \in Deploy, NEW k \in Command, PassBlank(d, k)
      PROVE  CurIsHeld'
  BY <1>3 DEF PassBlank, Forget, At
<1>4. ASSUME NEW d \in Deploy, NEW k \in Command, Mark(d, k)
      PROVE  CurIsHeld'
  BY <1>4 DEF Mark, Goto, Due
<1>5. ASSUME NEW d \in Deploy, Run(d)
      PROVE  CurIsHeld'
  BY <1>5 DEF Run, Goto, At
<1>6. ASSUME NEW d \in Deploy, Settle(d)
      PROVE  CurIsHeld'
  BY <1>6 DEF Settle, Goto, Forget
<1>7. ASSUME NEW d \in Deploy, NextPhase(d)
      PROVE  CurIsHeld'
  BY <1>7 DEF NextPhase, Goto, At
<1>8. ASSUME NEW d \in Deploy, Throw(d)
      PROVE  CurIsHeld'
  BY <1>8 DEF Throw, Goto
<1>9. ASSUME NEW D, Leave(D)
      PROVE  CurIsHeld'
  BY <1>9 DEF Leave
<1>10. ASSUME UNCHANGED deployVars
      PROVE  CurIsHeld'
  BY <1>10 DEF deployVars
<1>11. QED
  <2>1. ASSUME NEW d \in Deploy, DeployStep(d) \/ Throw(d) \/ ReleaseFails(d)
        PROVE  CurIsHeld'
    BY <2>1, <1>2, <1>3, <1>4, <1>5, <1>6, <1>7, <1>8, <1>9
       DEF DeployStep, Release, ReleaseFails
  <2>2. ASSUME EditStep PROVE CurIsHeld'
    BY <2>2, <1>10 DEF EditStep, EditCheck, EditApply, EditRefused
  <2>3. ASSUME RemoveApp \/ RemoveProject \/ PanelRestart PROVE CurIsHeld'
    BY <2>3, <1>9, <1>10 DEF RemoveApp, RemoveProject, PanelRestart
  <2>4. ASSUME NEW old \in SUBSET Command, ClearHistory(old) PROVE CurIsHeld'
    BY <2>4, <1>10 DEF ClearHistory
  <2>5. QED
    BY <1>1, <2>1, <2>2, <2>3, <2>4 DEF Next

-----------------------------------------------------------------------------

\* What a statement by id does to its own row, and that it does nothing else.
LEMMA UpdateOne ==
  ASSUME row \in [Command -> Row], NEW k \in Command, NEW new, Update(k, new)
  PROVE  /\ row'[k] = IF Is(k, "gone") THEN row[k] ELSE new
         /\ \A j \in Command \ {k} : row'[j] = row[j]
  BY DEF Update

\* A row that is with a deploy stays as that deploy read it.
LEMMA HandedStep ==
  ASSUME TypeOK, CurIsHeld, HandedToOne, Next
  PROVE  HandedToOne'
<1> SUFFICES ASSUME exists' PROVE HandedToOne'
  BY DEF HandedToOne
<1>0. exists /\ \A d \in Deploy, k \in Command : Holds(d, k) =>
        /\ Is(k, "claimed") /\ row[k].text = taken[d][k]
        /\ row[k].holder \in {d, None}
        /\ \A e \in Deploy \ {d} : ~Holds(e, k)
  <2>1. exists
    BY DEF Next, DeployStep, EditStep, Claim, ReadBack, PassBlank, Mark, Run, Settle,
           NextPhase, Throw, Release, ReleaseFails, EditCheck, EditApply, EditRefused,
           ClearHistory, RemoveApp, RemoveProject, PanelRestart
  <2>2. QED
    BY <2>1 DEF HandedToOne
<1>1. ASSUME NEW d \in Deploy, NEW runtime \in Runtime, Claim(d, runtime)
      PROVE  HandedToOne'
  <2>1. \A k \in Command : Is(k, "claimed") => row'[k] = row[k]
    BY <1>1 DEF Claim, Takeable, Is
  <2>2. UNCHANGED taken
    BY <1>1 DEF Claim
  <2>3. QED
    BY <1>0, <2>1, <2>2 DEF HandedToOne, Holds, Is
<1>2. ASSUME NEW d \in Deploy, ReadBack(d)
      PROVE  HandedToOne'
  BY <1>0, <1>2, CommandAssumption DEF ReadBack, Held, HandedToOne, Holds, Is, TypeOK
<1>3. ASSUME NEW d \in Deploy, NEW k \in Command, PassBlank(d, k)
      PROVE  HandedToOne'
  <2>1. Holds(d, k) /\ \A j \in Command \ {k} : row'[j] = row[j]
    BY <1>3, UpdateOne DEF PassBlank, SetStatus, Due, TypeOK
  <2>2. \A e \in Deploy, j \in Command : Holds(e, j)' => Holds(e, j) /\ j # k
    BY <1>0, <1>3, <2>1 DEF PassBlank, Forget, Holds, TypeOK
  <2>3. \A e \in Deploy, j \in Command : Holds(e, j)' => taken'[e][j] = taken[e][j]
    BY <1>3 DEF PassBlank, Forget, Holds, TypeOK
  <2>4. QED
    BY <1>0, <2>1, <2>2, <2>3 DEF HandedToOne, Is
<1>4. ASSUME NEW d \in Deploy, NEW k \in Command, Mark(d, k)
      PROVE  HandedToOne'
  <2>1. \A j \in Command : /\ row'[j].status = row[j].status
                           /\ row'[j].text = row[j].text
                           /\ row'[j].holder = row[j].holder
    <3>1. [row[k] EXCEPT !.attempts = @ + 1].status = row[k].status
          /\ [row[k] EXCEPT !.attempts = @ + 1].text = row[k].text
          /\ [row[k] EXCEPT !.attempts = @ + 1].holder = row[k].holder
      BY DEF TypeOK, Row
    <3>2. QED
      BY <1>4, <3>1, UpdateOne DEF Mark, TypeOK
  <2>2. UNCHANGED taken
    BY <1>4 DEF Mark
  <2>3. QED
    BY <1>0, <2>1, <2>2 DEF HandedToOne, Is, Holds
<1>5. ASSUME NEW d \in Deploy, Settle(d)
      PROVE  HandedToOne'
  <2>1. cur[d] \in Command /\ Holds(d, cur[d])
    BY <1>5 DEF Settle, CurIsHeld, Running
  <2>2. \A j \in Command \ {cur[d]} : row'[j] = row[j]
    BY <1>5, <2>1, UpdateOne DEF Settle, SetStatus, TypeOK
  <2>3. \A e \in Deploy, j \in Command : Holds(e, j)' => Holds(e, j) /\ j # cur[d]
    BY <1>0, <1>5, <2>1 DEF Settle, Forget, Holds, TypeOK
  <2>4. \A e \in Deploy, j \in Command : Holds(e, j)' => taken'[e][j] = taken[e][j]
    BY <1>5 DEF Settle, Forget, Holds, TypeOK
  <2>5. QED
    BY <1>0, <2>2, <2>3, <2>4 DEF HandedToOne, Is
<1>6. ASSUME NEW D, Leave(D),
             \A e \in Deploy \ D, k \in Command : Holds(e, k) => row'[k] = row[k]
      PROVE  HandedToOne'
  <2>1. \A e \in Deploy, k \in Command :
          Holds(e, k)' => e \notin D /\ Holds(e, k) /\ taken'[e][k] = taken[e][k]
    BY <1>6 DEF Leave, Holds
  <2>2. QED
    BY <1>0, <1>6, <2>1 DEF HandedToOne, Is
<1>7. ASSUME NEW d \in Deploy, Release(d)
      PROVE  HandedToOne'
  <2>1. \A e \in Deploy \ {d}, k \in Command : Holds(e, k) => row'[k] = row[k]
    BY <1>0, <1>7, CommandAssumption DEF Release, Held
  <2>2. QED
    BY <1>6, <1>7, <2>1 DEF Release
<1>8. ASSUME UNCHANGED <<taken, row>>
      PROVE  HandedToOne'
  BY <1>0, <1>8 DEF HandedToOne, Holds, Is
<1>9. ASSUME NEW d \in Deploy, Run(d) \/ NextPhase(d) \/ Throw(d)
      PROVE  HandedToOne'
  BY <1>8, <1>9 DEF Run, NextPhase, Throw
<1>10. ASSUME NEW d \in Deploy, ReleaseFails(d)
      PROVE  HandedToOne'
  BY <1>6, <1>10 DEF ReleaseFails
<1>11. ASSUME UNCHANGED taken,
              \A k \in Command : Is(k, "claimed") =>
                 /\ row'[k].status = "claimed" /\ row'[k].text = row[k].text
                 /\ row'[k].holder \in {row[k].holder, None}
      PROVE  HandedToOne'
  BY <1>0, <1>11 DEF HandedToOne, Holds, Is
<1>12. ASSUME NEW fresh \in SUBSET Command, NEW runtime \in Runtime, draft # None,
              NEW written \in [draft \union fresh -> Text],
              EditApply(fresh, written, runtime)
      PROVE  HandedToOne'
  <2>1. \A k \in Command : Is(k, "claimed") => row'[k] = row[k]
    BY <1>12 DEF EditApply, Replaced, Is
  <2>2. QED
    BY <1>11, <1>12, <2>1 DEF EditApply, deployVars, Is
<1>13. ASSUME NEW keep \in SUBSET Command, EditCheck(keep) \/ EditRefused
      PROVE  HandedToOne'
  BY <1>8, <1>13 DEF EditCheck, EditRefused, deployVars
<1>14. ASSUME NEW old \in SUBSET Command, ClearHistory(old)
      PROVE  HandedToOne'
  BY <1>11, <1>14 DEF ClearHistory, Spent, Is, deployVars
<1>15. CASE RemoveApp
  <2>1. \A k \in Command : Is(k, "claimed") =>
          row'[k] = [row[k] EXCEPT !.holder = None]
    BY <1>15 DEF RemoveApp, Spent, Is
  <2>2. \A k \in Command : LET r == [row[k] EXCEPT !.holder = None] IN
          r.status = row[k].status /\ r.text = row[k].text /\ r.holder = None
    BY DEF TypeOK, Row
  <2>3. QED
    BY <1>11, <1>15, <2>1, <2>2 DEF RemoveApp, deployVars, Is
<1>16. CASE RemoveProject
  BY <1>16 DEF RemoveProject
<1>17. CASE PanelRestart
  <2>1. \A e \in Deploy, k \in Command : Holds(e, k)' => ~Live(e) /\ Holds(e, k)
    BY <1>17 DEF PanelRestart, Leave, Holds
  <2>2. QED
    BY <2>1 DEF CurIsHeld, HandedToOne
<1>18. QED
  BY <1>1, <1>2, <1>3, <1>4, <1>5, <1>7, <1>9, <1>10, <1>12, <1>13, <1>14, <1>15,
     <1>16, <1>17 DEF Next, DeployStep, EditStep
-----------------------------------------------------------------------------

\* A claimed row stays with a deploy that will put it back, or `stranded` says
\* why it does not.
LEMMA ClaimedStep ==
  ASSUME TypeOK, CurIsHeld, ClaimedIsHeld, Next
  PROVE  ClaimedIsHeld'
<1> DEFINE Kept(k) == row'[k].status = "claimed" =>
                        Is(k, "claimed") /\ row'[k].holder = row[k].holder
<1>0. ASSUME stranded' = stranded, \A k \in Command : Kept(k),
             \A e \in Deploy : Live(e) => Live(e)'
      PROVE  ClaimedIsHeld'
  BY <1>0 DEF ClaimedIsHeld, Is, TypeOK, Row
<1>1. ASSUME NEW d \in Deploy, NEW runtime \in Runtime, Claim(d, runtime)
      PROVE  ClaimedIsHeld'
  <2>1. \A k \in Command : Takeable(k, runtime) =>
          row'[k] = [row[k] EXCEPT !.status = "claimed", !.holder = d]
    BY <1>1 DEF Claim
  <2>2. \A k \in Command : Takeable(k, runtime) => row'[k].holder = d
    BY <2>1 DEF TypeOK, Row
  <2>3. \A k \in Command : ~Takeable(k, runtime) => row'[k] = row[k]
    BY <1>1 DEF Claim
  <2>4. /\ Live(d)' /\ stranded' = stranded
        /\ \A e \in Deploy : Live(e) => Live(e)'
    BY <1>1 DEF Claim, Goto, Live, LivePoints, TypeOK, historyVars
  <2>5. \A k \in Command : row[k].holder \in Deploy \union {None}
    BY DEF TypeOK, Row
  <2>6. QED
    BY <2>2, <2>3, <2>4, <2>5, CommandAssumption DEF ClaimedIsHeld, Is
<1>2. ASSUME NEW k \in Command, NEW new,  Update(k, new),
             new.status = "claimed" => Is(k, "claimed") /\ new.holder = row[k].holder
      PROVE  \A j \in Command : Kept(j)
  BY <1>2, UpdateOne DEF TypeOK, Is
<1>3. ASSUME NEW k \in Command, NEW s \in Status \ {"claimed"}, SetStatus(k, s)
      PROVE  \A j \in Command : Kept(j)
  <2>1. [row[k] EXCEPT !.status = s].status = s
    BY DEF TypeOK, Row
  <2>2. QED
    BY <1>2, <1>3, <2>1 DEF SetStatus
<1>4. ASSUME NEW d \in Deploy, NEW k \in Command, PassBlank(d, k)
      PROVE  ClaimedIsHeld'
  <2>1. SetStatus(k, "done") /\ "done" \in Status \ {"claimed"}
    BY <1>4 DEF PassBlank, Status
  <2>2. QED
    BY <1>0, <1>3, <1>4, <2>1 DEF PassBlank, Live, historyVars
<1>5. ASSUME NEW d \in Deploy, NEW k \in Command, Mark(d, k)
      PROVE  ClaimedIsHeld'
  <2>1. [row[k] EXCEPT !.attempts = @ + 1].status = row[k].status
        /\ [row[k] EXCEPT !.attempts = @ + 1].holder = row[k].holder
    BY DEF TypeOK, Row
  <2>2. \A j \in Command : Kept(j)
    BY <1>2, <1>5, <2>1 DEF Mark, Is
  <2>3. QED
    BY <1>0, <1>5, <2>2 DEF Mark, Goto, Live, LivePoints, TypeOK, historyVars
<1>6. ASSUME NEW d \in Deploy, Settle(d)
      PROVE  ClaimedIsHeld'
  <2>1. cur[d] \in Command
    BY <1>6 DEF Settle, CurIsHeld, Running
  <2>2. PICK s \in Status \ {"claimed"} : SetStatus(cur[d], s)
    BY <1>6 DEF Settle, Status
  <2>3. QED
    BY <1>0, <1>3, <1>6, <2>1, <2>2
       DEF Settle, Goto, Live, LivePoints, TypeOK, historyVars
<1>7. ASSUME NEW d \in Deploy, Run(d) \/ NextPhase(d) \/ Throw(d) \/ ReadBack(d)
      PROVE  ClaimedIsHeld'
  BY <1>0, <1>7 DEF Run, NextPhase, Throw, ReadBack, Goto, Live, LivePoints, TypeOK,
                    historyVars, Is
<1>8. ASSUME NEW d \in Deploy, Release(d)
      PROVE  ClaimedIsHeld'
  <2>1. \A k \in Command : k \in Held(d) => row'[k].status = "queued"
    BY <1>8 DEF Release, Requeued, TypeOK, Row
  <2>2. \A k \in Command : k \notin Held(d) => row'[k] = row[k]
    BY <1>8 DEF Release
  <2>3. \A e \in Deploy \ {d} : Live(e) => Live(e)'
    BY <1>8 DEF Release, Leave, Live
  <2>4. QED
    BY <1>8, <2>1, <2>2, <2>3 DEF Release, ClaimedIsHeld, Held, Is, historyVars, TypeOK, Row
<1>9. ASSUME NEW d \in Deploy, ReleaseFails(d)
      PROVE  ClaimedIsHeld'
  <2>1. \A e \in Deploy \ {d} : Live(e) => Live(e)'
    BY <1>9 DEF ReleaseFails, Leave, Live
  <2>2. QED
    BY <1>9, <2>1 DEF ReleaseFails, ClaimedIsHeld, Held, Is, TypeOK, Row
<1>10. ASSUME NEW keep \in SUBSET Command, EditCheck(keep) \/ EditRefused
      PROVE  ClaimedIsHeld'
  BY <1>0, <1>10 DEF EditCheck, EditRefused, deployVars, historyVars, Live, Is
<1>11. ASSUME NEW fresh \in SUBSET Command, NEW runtime \in Runtime, draft # None,
              NEW written \in [draft \union fresh -> Text],
              EditApply(fresh, written, runtime)
      PROVE  ClaimedIsHeld'
  <2>1. \A k \in fresh : row'[k].status = "queued"
    <3>1. \A k \in fresh : row'[k] = [NoRow("queued") EXCEPT !.text = written[k]]
      BY <1>11 DEF EditApply, Replaced, Is
    <3>2. QED
      BY <3>1 DEF NoRow
  <2>2. \A k \in draft : row'[k].status = "queued"
    <3>1. \A k \in draft : k \in Command /\ row[k].status = "queued"
             /\ row'[k] = [row[k] EXCEPT !.text = written[k]]
      BY <1>11 DEF EditApply, Replaced, Is, TypeOK
    <3>2. QED
      BY <3>1 DEF TypeOK, Row
  <2>3. \A k \in Command \ (draft \union fresh) :
          row'[k] = row[k] \/ row'[k].status = "gone"
    BY <1>11 DEF EditApply, Replaced, Is, NoRow
  <2>4. \A k \in Command : Kept(k)
    BY <2>1, <2>2, <2>3 DEF Is
  <2>5. QED
    BY <1>0, <1>11, <2>4 DEF EditApply, deployVars, historyVars, Live
<1>12. ASSUME NEW old \in SUBSET Command, ClearHistory(old)
      PROVE  ClaimedIsHeld'
  BY <1>0, <1>12 DEF ClearHistory, NoRow, deployVars, historyVars, Live, Is
<1>13. CASE RemoveApp
  <2>1. SUFFICES ASSUME ~stranded', NEW k \in Command PROVE row'[k].status # "claimed"
    BY DEF ClaimedIsHeld, Is
  <2>2. row[k].status # "claimed"
    BY <1>13, <2>1 DEF RemoveApp, Is
  <2>3. QED
    BY <1>13, <2>2 DEF RemoveApp, NoRow, TypeOK, Row
<1>14. CASE RemoveProject
  BY <1>14 DEF RemoveProject, NoRow, ClaimedIsHeld, Is
<1>15. CASE PanelRestart
  <2>1. \A k \in Command : row'[k].status # "claimed"
    BY <1>15 DEF PanelRestart, Requeued, Is, TypeOK, Row
  <2>2. QED
    BY <2>1 DEF ClaimedIsHeld, Is
<1>16. QED
  BY <1>1, <1>4, <1>5, <1>6, <1>7, <1>8, <1>9, <1>10, <1>11, <1>12, <1>13, <1>14,
     <1>15 DEF Next, DeployStep, EditStep

-----------------------------------------------------------------------------

\* Every step keeps the invariant.
LEMMA CommandStep == CommandInv /\ [Next]_vars => CommandInv'
<1> SUFFICES ASSUME CommandInv, [Next]_vars PROVE CommandInv'
  OBVIOUS
<1>1. CASE Next
  BY <1>1, TypeStep, CurStep, HandedStep, ClaimedStep DEF CommandInv
<1>2. CASE UNCHANGED vars
  <2> USE <1>2 DEF CommandInv, vars, deployVars, historyVars
  <2>1. TypeOK'
    BY DEF TypeOK
  <2>2. CurIsHeld'
    BY DEF CurIsHeld, Running, Holds, Live
  <2>3. HandedToOne' /\ ClaimedIsHeld'
    BY DEF HandedToOne, ClaimedIsHeld, Holds, Is, Live
  <2>4. QED
    BY <2>1, <2>2, <2>3
<1>3. QED
  BY <1>1, <1>2

\* The invariant of the table and of what the deploys remember of it.
THEOREM CommandsCorrect == Spec => []CommandInv
<1>1. QED
  BY CommandInit, CommandStep, PTL DEF Spec

\* A row is handed to one deploy and to no other, and is not rewritten, deleted
\* or taken while that deploy has it, whatever the editor and the other deploys
\* of the project do.
THEOREM CommandsHandedToOne == Spec => []HandedToOne
<1>1. CommandInv => HandedToOne
  BY DEF CommandInv
<1>2. QED
  BY <1>1, CommandsCorrect, PTL

\* A claimed row belongs to a deploy that is under way and will put it back.
THEOREM ClaimedRowsHeld == Spec => []ClaimedIsHeld
<1>1. CommandInv => ClaimedIsHeld
  BY DEF CommandInv
<1>2. QED
  BY <1>1, CommandsCorrect, PTL

\* Every column, and everything a deploy remembers, is of its type.
THEOREM CommandTypes == Spec => []TypeOK
<1>1. CommandInv => TypeOK
  BY DEF CommandInv
<1>2. QED
  BY <1>1, CommandsCorrect, PTL

-----------------------------------------------------------------------------
(* The history of a row.  A step makes of a row only what RowMoves says: from *)
(* that the counts and the finality of the history follow.  What exited with   *)
(* 0 needs the deploy that is about to write it (WonIsKept), and a clean end   *)
(* needs every row a deploy holds to be of a phase its runtime has.            *)

\* A deleted row is blank, and a deleted project has no other.
GoneIsGone ==
    /\ ~exists => \A k \in Command : Is(k, "gone")
    /\ \A k \in Command : Is(k, "gone") => row[k] = NoRow("gone")

\* A command that was started was written and marked first.
Counted ==
    /\ \A k \in tried : ~Is(k, "unborn")
    /\ \A d \in Deploy : pc[d] \in Running =>
          Is(cur[d], "gone") \/ row[cur[d]].attempts > 0

\* A command that exited with 0 is done, or its deploy is about to write it.
WonIsKept ==
    ~interrupted => \A k \in won :
        Is(k, "done") \/ Is(k, "gone") \/ \E d \in Deploy : At(d, "succeeded") /\ cur[d] = k

\* What a deploy holds is of a phase its runtime has.
HeldIsRunnable ==
    /\ \A d \in Deploy : pc[d] \in {"new", "reading"} => phase[d] = 1
    /\ \A d \in Deploy : \A k \in Held(d) :
          pc[d] # "new" /\ Available(row[k].text.phase, built[d])
    /\ \A d \in Deploy, k \in Command : Holds(d, k) =>
          Available(taken[d][k].phase, built[d])

\* Only the phase before there is a checkout leaves rows behind it.
InTurn ==
    \A d \in Deploy, k \in Command : Holds(d, k) =>
       taken[d][k].phase = 1 \/ (taken[d][k].phase >= phase[d] /\ ~At(d, "finished"))

HistoryInv ==
    CommandInv /\ GoneIsGone /\ Counted /\ AttemptsAreCounted /\ WonIsKept
    /\ HeldIsRunnable /\ InTurn

\* Nothing has run and nothing is held at first.
LEMMA HistoryInit == Init => HistoryInv
<1> SUFFICES ASSUME Init PROVE HistoryInv
  OBVIOUS
<1>1. CommandInv
  BY CommandInit
<1>2. GoneIsGone /\ Counted /\ AttemptsAreCounted /\ WonIsKept
  BY DEF Init, GoneIsGone, Counted, AttemptsAreCounted, WonIsKept, NoRow, Is, Running
<1>3. HeldIsRunnable /\ InTurn
  BY DEF Init, HeldIsRunnable, InTurn, Held, Holds, Is, NoRow
<1>4. QED
  BY <1>1, <1>2, <1>3 DEF HistoryInv

\* A deploy has a row only as long as the row is claimed, or went with the
\* project.
LEMMA HeldIsClaimed ==
  ASSUME CommandInv, GoneIsGone, NEW d \in Deploy, NEW k \in Command, Holds(d, k)
  PROVE  /\ Is(k, "claimed") \/ Is(k, "gone")
         /\ exists => Is(k, "claimed") /\ row[k].text = taken[d][k]
  BY DEF CommandInv, GoneIsGone, HandedToOne

\* What a step can make of a row: nothing, delete it, write it for the first
\* time, or move it between the states before its history.
RowMoves(k) ==
    \/ row'[k] = row[k]
    \/ row'[k] = NoRow("gone")
    \/ Is(k, "unborn") /\ row'[k].status \in {"unborn", "queued"}
    \/ /\ row[k].status \in {"queued", "claimed"}
       /\ row'[k].status \in {"queued", "claimed", "done", "failed"}
       /\ row'[k].attempts >= row[k].attempts

\* A statement by id on a row that a deploy has moves it, or finds it deleted.
LEMMA UpdateMoves ==
  ASSUME TypeOK, NEW k \in Command, NEW new, Update(k, new),
         Is(k, "claimed") \/ Is(k, "gone"),
         new.status \in {"queued", "claimed", "done", "failed"},
         new.attempts >= row[k].attempts
  PROVE  \A j \in Command : RowMoves(j)
<1>1. \A j \in Command \ {k} : row'[j] = row[j]
  BY UpdateOne DEF TypeOK
<1>2. row'[k] = IF Is(k, "gone") THEN row[k] ELSE new
  BY UpdateOne DEF TypeOK
<1>3. QED
  BY <1>1, <1>2 DEF RowMoves, Is

\* Every step makes of every row one of the four things above.
LEMMA RowLife ==
  ASSUME CommandInv, GoneIsGone, Next
  PROVE  \A k \in Command : RowMoves(k)
<1>0. TypeOK /\ CurIsHeld
  BY DEF CommandInv
<1>1. \A k \in Command :
        /\ row[k].status \in Status /\ row[k].attempts \in Nat
        /\ \A s \in Status, h \in Deploy \union {None} :
             /\ [row[k] EXCEPT !.status = s].status = s
             /\ [row[k] EXCEPT !.status = s].attempts = row[k].attempts
             /\ [row[k] EXCEPT !.status = s, !.holder = h].status = s
             /\ [row[k] EXCEPT !.status = s, !.holder = h].attempts = row[k].attempts
             /\ [row[k] EXCEPT !.holder = h].status = row[k].status
             /\ [row[k] EXCEPT !.holder = h].attempts = row[k].attempts
        /\ \A t : [row[k] EXCEPT !.text = t].status = row[k].status
                  /\ [row[k] EXCEPT !.text = t].attempts = row[k].attempts
        /\ [row[k] EXCEPT !.attempts = @ + 1].status = row[k].status
        /\ [row[k] EXCEPT !.attempts = @ + 1].attempts = row[k].attempts + 1
  BY <1>0 DEF TypeOK, Row
<1>2. ASSUME NEW d \in Deploy, NEW runtime \in Runtime, Claim(d, runtime)
      PROVE  \A k \in Command : RowMoves(k)
  <2>1. "claimed" \in Status /\ d \in Deploy \union {None}
    BY DEF Status
  <2>2. ASSUME NEW k \in Command PROVE RowMoves(k)
    <3>1. CASE Takeable(k, runtime)
      <4>1. row'[k] = [row[k] EXCEPT !.status = "claimed", !.holder = d]
        BY <1>2, <3>1 DEF Claim
      <4>2. row'[k].status = "claimed" /\ row'[k].attempts = row[k].attempts
        BY <1>1, <2>1, <4>1
      <4>3. QED
        BY <1>1, <3>1, <4>2 DEF Takeable, RowMoves, Is
    <3>2. CASE ~Takeable(k, runtime)
      BY <1>2, <3>2 DEF Claim, RowMoves
    <3>3. QED
      BY <3>1, <3>2
  <2>3. QED
    BY <2>2
<1>3. ASSUME NEW d \in Deploy, NEW k \in Command, PassBlank(d, k)
      PROVE  \A j \in Command : RowMoves(j)
  <2>1. Holds(d, k) /\ SetStatus(k, "done")
    BY <1>3 DEF PassBlank, Due
  <2>2. [row[k] EXCEPT !.status = "done"].status = "done"
        /\ [row[k] EXCEPT !.status = "done"].attempts >= row[k].attempts
    BY <1>1 DEF Status
  <2>3. QED
    BY <1>0, <2>1, <2>2, HeldIsClaimed, UpdateMoves DEF SetStatus
<1>4. ASSUME NEW d \in Deploy, NEW k \in Command, Mark(d, k)
      PROVE  \A j \in Command : RowMoves(j)
  <2> DEFINE new == [row[k] EXCEPT !.attempts = @ + 1]
  <2>1. Holds(d, k) /\ Update(k, new)
    BY <1>4 DEF Mark, Due
  <2>2. new.status = row[k].status /\ new.attempts = row[k].attempts + 1
    BY <1>1
  <2>3. \A j \in Command \ {k} : row'[j] = row[j]
    BY <1>0, <2>1, UpdateOne DEF TypeOK
  <2>4. row'[k] = IF Is(k, "gone") THEN row[k] ELSE new
    BY <1>0, <2>1, UpdateOne DEF TypeOK
  <2> HIDE DEF new
  <2>5. Is(k, "claimed") \/ Is(k, "gone")
    BY <2>1, HeldIsClaimed
  <2>6. RowMoves(k)
    BY <1>1, <2>2, <2>4, <2>5 DEF RowMoves, Is
  <2>7. QED
    BY <2>3, <2>6 DEF RowMoves
<1>5. ASSUME NEW d \in Deploy, Settle(d)
      PROVE  \A j \in Command : RowMoves(j)
  <2>1. cur[d] \in Command /\ Holds(d, cur[d])
    BY <1>0, <1>5 DEF Settle, CurIsHeld, Running
  <2>2. PICK s \in {"done", "queued", "failed"} : SetStatus(cur[d], s)
    BY <1>5 DEF Settle
  <2>3. s \in Status /\ s \in {"queued", "claimed", "done", "failed"}
    BY <2>2 DEF Status
  <2>4. [row[cur[d]] EXCEPT !.status = s].status = s
        /\ [row[cur[d]] EXCEPT !.status = s].attempts >= row[cur[d]].attempts
    BY <1>1, <2>1, <2>3
  <2>5. QED
    BY <1>0, <2>1, <2>2, <2>3, <2>4, HeldIsClaimed, UpdateMoves DEF SetStatus
<1>6. ASSUME NEW k \in Command
      PROVE  Requeued(k).status = "queued" /\ Requeued(k).attempts = row[k].attempts
  <2>1. "queued" \in Status /\ None \in Deploy \union {None}
    BY DEF Status
  <2>2. QED
    BY <1>1, <2>1 DEF Requeued
<1>7. ASSUME NEW d \in Deploy, Release(d)
      PROVE  \A k \in Command : RowMoves(k)
  BY <1>1, <1>6, <1>7 DEF Release, Held, RowMoves, Is
<1>8. ASSUME UNCHANGED row
      PROVE  \A k \in Command : RowMoves(k)
  BY <1>8 DEF RowMoves
<1>9. ASSUME NEW fresh \in SUBSET {k \in Command : Is(k, "unborn")}, NEW runtime \in Runtime,
             draft # None, NEW written \in [draft \union fresh -> Text],
             EditApply(fresh, written, runtime)
      PROVE  \A k \in Command : RowMoves(k)
  <2>1. ASSUME NEW k \in Command PROVE RowMoves(k)
    <3>1. row'[k] = Replaced(k, fresh, written)
      BY <1>9 DEF EditApply
    <3>2. CASE k \in fresh
      <4>1. row'[k] = [NoRow("queued") EXCEPT !.text = written[k]] /\ Is(k, "unborn")
        BY <1>9, <3>1, <3>2 DEF Replaced, EditApply, Is
      <4>2. row'[k].status = "queued"
        BY <4>1 DEF NoRow
      <4>3. QED
        BY <4>1, <4>2 DEF RowMoves
    <3>3. CASE k \notin fresh /\ k \in draft
      <4>1. row'[k] = [row[k] EXCEPT !.text = written[k]] /\ Is(k, "queued")
        BY <1>9, <3>1, <3>3 DEF Replaced, EditApply
      <4>2. QED
        BY <1>1, <4>1 DEF RowMoves, Is
    <3>4. CASE k \notin fresh /\ k \notin draft
      BY <3>1, <3>4 DEF Replaced, RowMoves
    <3>5. QED
      BY <3>2, <3>3, <3>4
  <2>2. QED
    BY <2>1
<1>10. ASSUME NEW old \in SUBSET Command, ClearHistory(old)
      PROVE  \A k \in Command : RowMoves(k)
  BY <1>10 DEF ClearHistory, RowMoves
<1>11. CASE RemoveApp
  <2>1. ASSUME NEW k \in Command PROVE RowMoves(k)
    <3>1. CASE Spent(k)
      BY <1>11, <3>1 DEF RemoveApp, RowMoves
    <3>2. CASE ~Spent(k)
      <4>1. row'[k] = [row[k] EXCEPT !.holder = None]
        BY <1>11, <3>2 DEF RemoveApp
      <4>2. row'[k].status = row[k].status /\ row'[k].attempts = row[k].attempts
        BY <1>1, <4>1
      <4>3. Is(k, "gone") => row'[k] = row[k]
        BY <4>1 DEF GoneIsGone, NoRow
      <4>4. row[k].status \in {"unborn", "queued", "claimed", "gone"}
        BY <1>1, <3>2 DEF Spent, Status
      <4>5. QED
        BY <1>1, <4>2, <4>3, <4>4 DEF RowMoves, Is
    <3>3. QED
      BY <3>1, <3>2
  <2>2. QED
    BY <2>1
<1>12. CASE RemoveProject
  BY <1>12 DEF RemoveProject, RowMoves
<1>13. CASE PanelRestart
  BY <1>1, <1>6, <1>13 DEF PanelRestart, RowMoves, Is
<1>14. QED
  <2>1. ASSUME NEW d \in Deploy, DeployStep(d) \/ Throw(d) \/ ReleaseFails(d)
        PROVE  \A k \in Command : RowMoves(k)
    BY <1>3, <1>4, <1>5, <1>7, <1>8, <2>1
       DEF DeployStep, ReadBack, Run, NextPhase, Throw, ReleaseFails
  <2>2. ASSUME EditStep PROVE \A k \in Command : RowMoves(k)
    BY <1>8, <1>9, <2>2 DEF EditStep, EditCheck, EditRefused
  <2>3. QED
    BY <1>2, <1>10, <1>11, <1>12, <1>13, <2>1, <2>2 DEF Next

\* What a step does to a deploy that goes on having a row.
LEMMA HolderMoves ==
  ASSUME CommandInv, Next, NEW d \in Deploy, NEW k \in Command, Holds(d, k)'
  PROVE  \/ ReadBack(d)
         \/ /\ Holds(d, k) /\ taken'[d][k] = taken[d][k] /\ built'[d] = built[d]
            /\ \/ NextPhase(d)
               \/ phase'[d] = phase[d] /\ (pc'[d] = "finished" => pc[d] = "finished")
<1> DEFINE Stays == /\ Holds(d, k) /\ taken'[d][k] = taken[d][k] /\ built'[d] = built[d]
                    /\ phase'[d] = phase[d] /\ (pc'[d] = "finished" => pc[d] = "finished")
<1>0. TypeOK /\ CurIsHeld
  BY DEF CommandInv
<1> USE DEF TypeOK, Holds
<1>1. ASSUME NEW e \in Deploy, NEW runtime \in Runtime, Claim(e, runtime)
      PROVE  Stays
  BY <1>0, <1>1 DEF Claim, Goto, At, CurIsHeld, Live, LivePoints
<1>2. ASSUME NEW e \in Deploy, e # d, ReadBack(e)
      PROVE  Stays
  BY <1>0, <1>2 DEF ReadBack, Goto
<1>3. ASSUME NEW e \in Deploy, NEW j \in Command, PassBlank(e, j) \/ Mark(e, j)
      PROVE  Stays
  BY <1>0, <1>3 DEF PassBlank, Mark, Forget, Goto
<1>4. ASSUME NEW e \in Deploy, Run(e) \/ Settle(e) \/ Throw(e)
      PROVE  Stays
  BY <1>0, <1>4 DEF Run, Settle, Throw, Forget, Goto
<1>5. ASSUME NEW e \in Deploy, e # d, NextPhase(e)
      PROVE  Stays
  BY <1>0, <1>5 DEF NextPhase, Goto
<1>6. ASSUME NextPhase(d)
      PROVE  Holds(d, k) /\ taken'[d][k] = taken[d][k] /\ built'[d] = built[d]
  BY <1>0, <1>6 DEF NextPhase
<1>7. ASSUME NEW D, Leave(D)
      PROVE  Stays
  BY <1>0, <1>7 DEF Leave
<1>8. ASSUME UNCHANGED deployVars
      PROVE  Stays
  BY <1>0, <1>8 DEF deployVars
<1> HIDE DEF Stays
<1>9. ReadBack(d) \/ NextPhase(d) \/ Stays
  <2>1. ASSUME NEW e \in Deploy, DeployStep(e) \/ Throw(e) \/ ReleaseFails(e)
        PROVE  ReadBack(d) \/ NextPhase(d) \/ Stays
    BY <2>1, <1>2, <1>3, <1>4, <1>5, <1>7 DEF DeployStep, Release, ReleaseFails
  <2>2. ASSUME EditStep PROVE Stays
    BY <2>2, <1>8 DEF EditStep, EditCheck, EditApply, EditRefused
  <2>3. ASSUME RemoveApp \/ RemoveProject \/ PanelRestart PROVE Stays
    BY <2>3, <1>7, <1>8 DEF RemoveApp, RemoveProject, PanelRestart
  <2>4. ASSUME NEW old \in SUBSET Command, ClearHistory(old) PROVE Stays
    BY <2>4, <1>8 DEF ClearHistory
  <2>5. QED
    BY <1>1, <2>1, <2>2, <2>3, <2>4 DEF Next
<1>10. QED
  BY <1>6, <1>9 DEF Stays

\* What a step does to a deploy at a command.
LEMMA RunnerMoves ==
  ASSUME TypeOK, Next, NEW d \in Deploy
  PROVE  /\ pc'[d] \in Running =>
               \/ pc[d] \in Running /\ cur'[d] = cur[d]
               \/ \E k \in Command : Mark(d, k) /\ cur'[d] = k
         /\ At(d, "succeeded") =>
               \/ At(d, "succeeded")' /\ cur'[d] = cur[d]
               \/ Settle(d) \/ Throw(d) \/ PanelRestart
<1> DEFINE Stays ==
      /\ pc'[d] \in Running => pc[d] \in Running /\ cur'[d] = cur[d]
      /\ At(d, "succeeded") => At(d, "succeeded")' /\ cur'[d] = cur[d]
<1> USE DEF TypeOK, Running, At
<1>1. ASSUME NEW e \in Deploy, NEW runtime \in Runtime, Claim(e, runtime)
      PROVE  Stays
  BY <1>1 DEF Claim, Goto
<1>2. ASSUME NEW e \in Deploy, ReadBack(e) \/ Run(e) \/ NextPhase(e)
      PROVE  Stays
  BY <1>2 DEF ReadBack, Run, NextPhase, Goto
<1>3. ASSUME NEW e \in Deploy, NEW j \in Command, PassBlank(e, j)
      PROVE  Stays
  BY <1>3 DEF PassBlank
<1>4. ASSUME NEW e \in Deploy, NEW j \in Command, Mark(e, j), e # d
      PROVE  Stays
  BY <1>4 DEF Mark, Goto
<1>5. ASSUME NEW j \in Command, Mark(d, j)
      PROVE  cur'[d] = j /\ ~At(d, "succeeded")
  BY <1>5 DEF Mark
<1>6. ASSUME NEW e \in Deploy, Settle(e) \/ Throw(e), e # d
      PROVE  Stays
  BY <1>6 DEF Settle, Throw, Goto
<1>7. ASSUME Settle(d) \/ Throw(d)
      PROVE  pc'[d] \notin Running
  BY <1>7 DEF Settle, Throw, Goto
<1>8. ASSUME NEW e \in Deploy, Release(e) \/ ReleaseFails(e)
      PROVE  Stays
  BY <1>8 DEF Release, ReleaseFails, Leave
<1>9. ASSUME UNCHANGED deployVars
      PROVE  Stays
  BY <1>9 DEF deployVars
<1>10. ASSUME PanelRestart
      PROVE  pc'[d] \notin Running
  BY <1>10 DEF PanelRestart, Leave, Live, LivePoints
<1> HIDE DEF Stays
<1>11. \/ Stays \/ \E k \in Command : Mark(d, k)
       \/ Settle(d) \/ Throw(d) \/ PanelRestart
  <2>1. ASSUME NEW e \in Deploy, DeployStep(e) \/ Throw(e) \/ ReleaseFails(e)
        PROVE  Stays \/ (\E k \in Command : Mark(d, k)) \/ Settle(d) \/ Throw(d)
    BY <2>1, <1>2, <1>3, <1>4, <1>6, <1>8 DEF DeployStep
  <2>2. ASSUME EditStep PROVE Stays
    BY <2>2, <1>9 DEF EditStep, EditCheck, EditApply, EditRefused
  <2>3. ASSUME RemoveApp \/ RemoveProject PROVE Stays
    BY <2>3, <1>9 DEF RemoveApp, RemoveProject
  <2>4. ASSUME NEW old \in SUBSET Command, ClearHistory(old) PROVE Stays
    BY <2>4, <1>9 DEF ClearHistory
  <2>5. QED
    BY <1>1, <2>1, <2>2, <2>3, <2>4 DEF Next
<1>12. QED
  BY <1>5, <1>7, <1>10, <1>11 DEF Stays

\* What the history variables record.
LEMMA HistoryMoves ==
  ASSUME TypeOK, Next
  PROVE  /\ exists' = exists \/ RemoveProject
         /\ (tried' = tried /\ won' = won) \/ \E d \in Deploy : Run(d)
         /\ interrupted => interrupted'
<1> USE DEF historyVars
<1>1. ASSUME NEW d \in Deploy, DeployStep(d) \/ Throw(d) \/ ReleaseFails(d)
      PROVE  /\ exists' = exists
             /\ (tried' = tried /\ won' = won) \/ Run(d)
  BY <1>1 DEF DeployStep, ReadBack, Run, Settle, NextPhase, Release, PassBlank, Mark,
              Throw, ReleaseFails
<1>2. ASSUME NEW d \in Deploy, DeployStep(d) \/ ReleaseFails(d)
      PROVE  interrupted' = interrupted
  BY <1>2 DEF DeployStep, ReadBack, Run, Settle, NextPhase, Release, PassBlank, Mark,
              ReleaseFails
<1>3. ASSUME EditStep
      PROVE  exists' = exists /\ tried' = tried /\ won' = won /\ interrupted' = interrupted
  BY <1>3 DEF EditStep, EditCheck, EditApply, EditRefused
<1>4. ASSUME NEW d \in Deploy, Throw(d) PROVE interrupted => interrupted'
  BY <1>4, Zenon DEF Throw
<1>5. ASSUME PanelRestart
      PROVE  exists' = exists /\ tried' = tried /\ won' = won /\ (interrupted => interrupted')
  BY <1>5, Zenon DEF PanelRestart
<1>6. ASSUME NEW d \in Deploy, NEW runtime \in Runtime, Claim(d, runtime)
      PROVE  exists' = exists /\ tried' = tried /\ won' = won /\ interrupted' = interrupted
  BY <1>6 DEF Claim
<1>7. ASSUME NEW old \in SUBSET Command, ClearHistory(old)
      PROVE  exists' = exists /\ tried' = tried /\ won' = won /\ interrupted' = interrupted
  BY <1>7 DEF ClearHistory
<1>8. ASSUME RemoveApp \/ RemoveProject
      PROVE  /\ exists' = exists \/ RemoveProject
             /\ tried' = tried /\ won' = won /\ interrupted' = interrupted
  BY <1>8 DEF RemoveApp, RemoveProject
<1>9. QED
  <2>1. ASSUME NEW d \in Deploy, DeployStep(d) \/ Throw(d) \/ ReleaseFails(d)
        PROVE  interrupted => interrupted'
    BY <2>1, <1>2, <1>4
  <2>2. interrupted => interrupted'
    BY <2>1, <1>3, <1>5, <1>6, <1>7, <1>8, Zenon DEF Next
  <2>3. exists' = exists \/ RemoveProject
    BY <1>1, <1>3, <1>5, <1>6, <1>7, <1>8, Zenon DEF Next
  <2>4. (tried' = tried /\ won' = won) \/ \E d \in Deploy : Run(d)
    BY <1>1, <1>3, <1>5, <1>6, <1>7, <1>8, Zenon DEF Next
  <2>5. QED
    BY <2>2, <2>3, <2>4

-----------------------------------------------------------------------------

\* What is deleted stays deleted, and blank.
LEMMA GoneStep ==
  ASSUME CommandInv, GoneIsGone, Next
  PROVE  GoneIsGone'
<1>1. \A k \in Command : RowMoves(k)
  BY RowLife
<1>2. \A k \in Command : Is(k, "gone")' => row'[k] = NoRow("gone")
  BY <1>1 DEF RowMoves, GoneIsGone, Is
<1>3. \A k \in Command : Is(k, "gone") => Is(k, "gone")'
  BY <1>1 DEF RowMoves, Is, NoRow
<1>4. RemoveProject => \A k \in Command : Is(k, "gone")'
  BY DEF RemoveProject, Is, NoRow
<1>5. exists' = exists \/ RemoveProject
  BY HistoryMoves DEF CommandInv
<1>6. QED
  BY <1>2, <1>3, <1>4, <1>5 DEF GoneIsGone, NoRow, Is

\* A row that was ever started keeps its count, or goes.
LEMMA CountStep ==
  ASSUME CommandInv, GoneIsGone, Counted, AttemptsAreCounted, Next
  PROVE  Counted' /\ AttemptsAreCounted'
<1>0. TypeOK /\ CurIsHeld
  BY DEF CommandInv
<1>1. ASSUME NEW k \in Command, ~Is(k, "unborn"), Is(k, "gone") \/ row[k].attempts > 0
      PROVE  ~Is(k, "unborn")' /\ (Is(k, "gone")' \/ row'[k].attempts > 0)
  <2>1. RowMoves(k)
    BY RowLife
  <2>2. row[k].attempts \in Nat
    BY <1>0 DEF TypeOK, Row
  <2>3. CASE row'[k] = row[k]
    BY <1>1, <2>3 DEF Is
  <2>4. CASE row'[k] = NoRow("gone")
    BY <2>4 DEF Is, NoRow
  <2>5. CASE /\ row[k].status \in {"queued", "claimed"}
             /\ row'[k].status \in {"queued", "claimed", "done", "failed"}
             /\ row'[k].attempts >= row[k].attempts
    <3>1. row[k].attempts > 0
      BY <1>1, <2>5 DEF Is
    <3>2. row'[k].attempts > 0
      <4>1. row'[k].attempts \in Nat
        BY <1>0, TypeStep DEF TypeOK, Row
      <4>2. QED
        BY <2>2, <2>5, <3>1, <4>1
    <3>3. QED
      BY <2>5, <3>2 DEF Is
  <2>6. QED
    BY <1>1, <2>1, <2>3, <2>4, <2>5 DEF RowMoves
<1>2. ASSUME NEW d \in Deploy, pc[d] \in Running
      PROVE  /\ cur[d] \in Command /\ ~Is(cur[d], "unborn")
             /\ Is(cur[d], "gone") \/ row[cur[d]].attempts > 0
  <2>1. cur[d] \in Command /\ Holds(d, cur[d])
    BY <1>0, <1>2 DEF CurIsHeld
  <2>2. QED
    BY <1>2, <2>1, HeldIsClaimed DEF Counted, Is
<1>3. ASSUME NEW k \in tried'
      PROVE  ~Is(k, "unborn")' /\ (Is(k, "gone")' \/ row'[k].attempts > 0)
  <2>1. CASE k \in tried
    BY <1>0, <1>1, <2>1 DEF Counted, AttemptsAreCounted, TypeOK
  <2>2. CASE k \notin tried
    <3>1. PICK d \in Deploy : Run(d)
      BY <1>0, <1>3, <2>2, HistoryMoves
    <3>2. pc[d] \in Running /\ k = cur[d]
      BY <1>3, <2>2, <3>1 DEF Run, At, Running
    <3>3. QED
      BY <1>1, <1>2, <3>2
  <2>3. QED
    BY <2>1, <2>2
<1>4. ASSUME NEW d \in Deploy, pc'[d] \in Running
      PROVE  Is(cur[d], "gone")' \/ row'[cur'[d]].attempts > 0
  <2>1. CASE pc[d] \in Running /\ cur'[d] = cur[d]
    BY <1>1, <1>2, <2>1
  <2>2. ASSUME NEW k \in Command, Mark(d, k), cur'[d] = k
        PROVE  Is(k, "gone")' \/ row'[k].attempts > 0
    <3>1. row'[k] = IF Is(k, "gone") THEN row[k] ELSE [row[k] EXCEPT !.attempts = @ + 1]
      BY <1>0, <2>2, UpdateOne DEF Mark, TypeOK
    <3>2. row[k].attempts \in Nat
          /\ [row[k] EXCEPT !.attempts = @ + 1].attempts = row[k].attempts + 1
      BY <1>0 DEF TypeOK, Row
    <3>3. QED
      BY <3>1, <3>2 DEF Is
  <2>3. QED
    BY <1>0, <1>4, <2>1, <2>2, RunnerMoves DEF Is
<1>5. QED
  BY <1>3, <1>4 DEF Counted, AttemptsAreCounted, Is

\* What exited with 0 is written as done before its row can go back.
LEMMA WonStep ==
  ASSUME CommandInv, GoneIsGone, WonIsKept, Next
  PROVE  WonIsKept'
<1> SUFFICES ASSUME ~interrupted', NEW k \in won'
             PROVE  Is(k, "done")' \/ Is(k, "gone")'
                    \/ \E d \in Deploy : At(d, "succeeded")' /\ cur'[d] = k
  BY DEF WonIsKept
<1>0. TypeOK /\ CurIsHeld /\ HandedToOne
  BY DEF CommandInv
<1>1. CASE k \notin won
  <2>1. PICK d \in Deploy : Run(d)
    BY <1>0, <1>1, HistoryMoves
  <2>2. k = cur[d] /\ At(d, "succeeded")' /\ cur' = cur
    BY <1>0, <1>1, <2>1 DEF Run, At, Goto, TypeOK
  <2>3. QED
    BY <2>2
<1>2. CASE k \in won
  <2>1. ~interrupted
    BY <1>0, HistoryMoves
  <2>2. k \in Command /\ RowMoves(k)
    BY <1>0, <1>2, RowLife DEF TypeOK
  <2>3. CASE Is(k, "done") \/ Is(k, "gone")
    BY <2>2, <2>3 DEF RowMoves, Is, NoRow
  <2>4. ASSUME NEW d \in Deploy, At(d, "succeeded"), cur[d] = k
        PROVE  Is(k, "done")' \/ Is(k, "gone")' \/ (At(d, "succeeded")' /\ cur'[d] = k)
    <3>1. Holds(d, k)
      BY <1>0, <2>4 DEF CurIsHeld, At, Running
    <3>2. CASE Settle(d)
      <4>1. SetStatus(k, "done")
        BY <2>4, <3>2 DEF Settle, At, Critical
      <4>2. row'[k] = IF Is(k, "gone") THEN row[k] ELSE [row[k] EXCEPT !.status = "done"]
        BY <1>0, <2>2, <4>1, UpdateOne DEF SetStatus, TypeOK
      <4>3. [row[k] EXCEPT !.status = "done"].status = "done"
        BY <1>0, <2>2 DEF TypeOK, Row
      <4>4. QED
        BY <4>2, <4>3 DEF Is
    <3>3. CASE Throw(d)
      BY <2>4, <3>3 DEF Throw, At
    <3>4. CASE PanelRestart
      <4>1. cur[d] # None
        BY <2>2, <2>4, CommandAssumption
      <4>2. interrupted' = (interrupted \/ \E e \in Deploy : cur[e] # None)
        BY <3>4 DEF PanelRestart
      <4>3. QED
        BY <4>1, <4>2
    <3>5. QED
      BY <1>0, <2>4, <3>2, <3>3, <3>4, RunnerMoves
  <2>5. QED
    BY <1>2, <2>1, <2>3, <2>4 DEF WonIsKept
<1>3. QED
  BY <1>1, <1>2

\* A row claimed for a deploy was claimed by it, with the text it has now.
LEMMA HeldRowMoves ==
  ASSUME CommandInv, Next, NEW d \in Deploy, NEW k \in Command, k \in Held(d)'
  PROVE  \/ k \in Held(d) /\ row'[k].text = row[k].text
         \/ \E runtime \in Runtime :
               Claim(d, runtime) /\ Takeable(k, runtime) /\ row'[k].text = row[k].text
<1> DEFINE Same == k \in Held(d) /\ row'[k].text = row[k].text
<1>0. TypeOK /\ CurIsHeld
  BY DEF CommandInv
<1>1. /\ row'[k].status = "claimed" /\ row'[k].holder = d
      /\ row[k] \in Row /\ k \in Command /\ d # None
  BY <1>0, CommandAssumption DEF Held, Is, TypeOK
<1>2. ASSUME row'[k] = row[k] PROVE Same
  BY <1>1, <1>2 DEF Held, Is
<1>3. ASSUME NEW e \in Deploy, NEW runtime \in Runtime, Claim(e, runtime)
      PROVE  Same \/ (e = d /\ Takeable(k, runtime) /\ row'[k].text = row[k].text)
  <2>1. CASE Takeable(k, runtime)
    <3>1. row'[k] = [row[k] EXCEPT !.status = "claimed", !.holder = e]
      BY <1>3, <2>1 DEF Claim
    <3>2. row'[k].holder = e /\ row'[k].text = row[k].text
      BY <1>1, <3>1 DEF Row
    <3>3. QED
      BY <1>1, <2>1, <3>2
  <2>2. CASE ~Takeable(k, runtime)
    BY <1>2, <1>3, <2>2 DEF Claim
  <2>3. QED
    BY <2>1, <2>2
<1>4. ASSUME NEW j \in Command, NEW s \in {"done", "queued", "failed"}, SetStatus(j, s)
      PROVE  Same
  <2>1. j # k
    <3>1. SUFFICES ASSUME j = k PROVE FALSE
      OBVIOUS
    <3>2. row'[k] = IF Is(k, "gone") THEN row[k] ELSE [row[k] EXCEPT !.status = s]
      BY <1>0, <1>4, <3>1, UpdateOne DEF SetStatus, TypeOK
    <3>3. [row[k] EXCEPT !.status = s].status = s
      BY <1>1 DEF Row
    <3>4. QED
      BY <1>1, <1>4, <3>2, <3>3 DEF Is
  <2>2. row'[k] = row[k]
    BY <1>0, <1>1, <1>4, <2>1, UpdateOne DEF SetStatus, TypeOK
  <2>3. QED
    BY <1>2, <2>2
<1>5. ASSUME NEW e \in Deploy, NEW j \in Command, PassBlank(e, j)
      PROVE  Same
  BY <1>4, <1>5 DEF PassBlank
<1>6. ASSUME NEW e \in Deploy, NEW j \in Command, Mark(e, j)
      PROVE  Same
  <2> DEFINE new == [row[k] EXCEPT !.attempts = @ + 1]
  <2>1. row'[k] = row[k] \/ row'[k] = new
    BY <1>0, <1>1, <1>6, UpdateOne DEF Mark, TypeOK
  <2>2. new.status = row[k].status /\ new.holder = row[k].holder /\ new.text = row[k].text
    BY <1>1 DEF Row
  <2>3. QED
    BY <1>1, <2>1, <2>2 DEF Held, Is
<1>7. ASSUME NEW e \in Deploy, Settle(e)
      PROVE  Same
  <2>1. cur[e] \in Command
    BY <1>0, <1>7 DEF Settle, CurIsHeld, Running
  <2>2. PICK s \in {"done", "queued", "failed"} : SetStatus(cur[e], s)
    BY <1>7 DEF Settle
  <2>3. QED
    BY <1>4, <2>1, <2>2
<1>8. Requeued(k).status = "queued"
  BY <1>1 DEF Requeued, Row
<1>9. ASSUME NEW e \in Deploy, Release(e)
      PROVE  Same
  BY <1>1, <1>2, <1>8, <1>9 DEF Release
<1>10. ASSUME NEW fresh \in SUBSET {j \in Command : Is(j, "unborn")}, NEW runtime \in Runtime,
              draft # None, NEW written \in [draft \union fresh -> Text],
              EditApply(fresh, written, runtime)
      PROVE  Same
  <2>1. row'[k] = Replaced(k, fresh, written)
    BY <1>1, <1>10 DEF EditApply
  <2>2. k \notin fresh
    <3>1. k \in fresh => row'[k] = [NoRow("queued") EXCEPT !.text = written[k]]
      BY <1>10, <2>1 DEF Replaced, EditApply, Is
    <3>2. QED
      BY <1>1, <3>1 DEF NoRow
  <2>3. k \notin draft
    <3>1. k \in draft => Is(k, "queued") /\ row'[k] = [row[k] EXCEPT !.text = written[k]]
      BY <1>10, <2>1, <2>2 DEF Replaced, EditApply
    <3>2. [row[k] EXCEPT !.text = written[k]].status = row[k].status
      BY <1>1 DEF Row
    <3>3. QED
      BY <1>1, <3>1, <3>2 DEF Is
  <2>4. QED
    BY <1>1, <1>2, <2>1, <2>2, <2>3 DEF Replaced, NoRow
<1>11. ASSUME NEW old \in SUBSET Command, ClearHistory(old)
      PROVE  Same
  BY <1>1, <1>2, <1>11 DEF ClearHistory, NoRow
<1>12. ASSUME RemoveApp PROVE Same
  <2>1. row'[k] = NoRow("gone") \/ row'[k] = [row[k] EXCEPT !.holder = None]
    BY <1>1, <1>12 DEF RemoveApp
  <2>2. ASSUME row'[k] = [row[k] EXCEPT !.holder = None] PROVE row'[k].holder = None
    BY <1>1, <2>2 DEF Row
  <2>3. row'[k].status # "claimed" \/ row'[k].holder = None
    BY <2>1, <2>2 DEF NoRow
  <2>4. QED
    BY <1>1, <2>3
<1>13. ASSUME RemoveProject PROVE Same
  BY <1>1, <1>13 DEF RemoveProject, NoRow
<1>14. ASSUME PanelRestart PROVE Same
  BY <1>1, <1>2, <1>8, <1>14 DEF PanelRestart
<1> HIDE DEF Same
<1>15. Same \/ \E runtime \in Runtime :
               Claim(d, runtime) /\ Takeable(k, runtime) /\ row'[k].text = row[k].text
  <2>0. UNCHANGED row => Same
    BY <1>2
  <2>1. ASSUME NEW e \in Deploy, DeployStep(e) \/ Throw(e) \/ ReleaseFails(e)
        PROVE  Same
    BY <2>0, <2>1, <1>5, <1>6, <1>7, <1>9
       DEF DeployStep, ReadBack, Run, NextPhase, Throw, ReleaseFails
  <2>2. ASSUME EditStep PROVE Same
    BY <2>0, <2>2, <1>10 DEF EditStep, EditCheck, EditRefused
  <2>3. QED
    BY <1>3, <1>11, <1>12, <1>13, <1>14, <2>1, <2>2 DEF Next
<1>16. QED
  BY <1>15 DEF Same

\* Every step keeps what is held among the phases its holder's runtime has.
LEMMA RunnableStep ==
  ASSUME CommandInv, HeldIsRunnable, Next
  PROVE  HeldIsRunnable'
<1>0. TypeOK /\ CurIsHeld
  BY DEF CommandInv
<1>1. ASSUME NEW d \in Deploy
      PROVE  /\ pc'[d] = "new" => pc[d] = "new" /\ phase'[d] = phase[d]
             /\ pc'[d] = "reading" => pc[d] \in {"new", "reading"} /\ phase'[d] = phase[d]
             /\ \/ built'[d] = built[d] \/ built'[d] = "native"
                \/ \E runtime \in Runtime : Claim(d, runtime)
  <2> USE <1>0 DEF TypeOK, Goto, At
  <2>1. ASSUME NEW e \in Deploy, DeployStep(e) \/ Throw(e) \/ ReleaseFails(e)
        PROVE  /\ pc'[d] = "new" => pc[d] = "new" /\ phase'[d] = phase[d]
               /\ pc'[d] = "reading" => pc[d] = "reading" /\ phase'[d] = phase[d]
               /\ built'[d] = built[d] \/ built'[d] = "native"
    <3>1. CASE ReadBack(e) \/ Run(e) \/ Settle(e) \/ NextPhase(e) \/ Throw(e)
      BY <3>1 DEF ReadBack, Run, Settle, NextPhase, Throw
    <3>2. ASSUME NEW k \in Command, PassBlank(e, k) \/ Mark(e, k)
          PROVE  /\ pc'[d] = "new" => pc[d] = "new" /\ phase'[d] = phase[d]
                 /\ pc'[d] = "reading" => pc[d] = "reading" /\ phase'[d] = phase[d]
                 /\ built'[d] = built[d]
      BY <3>2 DEF PassBlank, Mark
    <3>3. CASE Release(e) \/ ReleaseFails(e)
      BY <3>3 DEF Release, ReleaseFails, Leave
    <3>4. QED
      BY <2>1, <3>1, <3>2, <3>3 DEF DeployStep
  <2>2. ASSUME NEW e \in Deploy, NEW runtime \in Runtime, Claim(e, runtime)
        PROVE  /\ pc'[d] = "new" => pc[d] = "new" /\ phase'[d] = phase[d]
               /\ pc'[d] = "reading" => pc[d] \in {"new", "reading"} /\ phase'[d] = phase[d]
               /\ built'[d] = built[d] \/ d = e
    BY <2>2 DEF Claim
  <2>3. ASSUME UNCHANGED deployVars
        PROVE  pc'[d] = pc[d] /\ phase'[d] = phase[d] /\ built'[d] = built[d]
    BY <2>3 DEF deployVars
  <2>4. ASSUME EditStep PROVE UNCHANGED deployVars
    BY <2>4 DEF EditStep, EditCheck, EditApply, EditRefused
  <2>5. ASSUME PanelRestart
        PROVE  /\ pc'[d] = "new" => pc[d] = "new" /\ phase'[d] = phase[d]
               /\ pc'[d] = "reading" => pc[d] = "reading" /\ phase'[d] = phase[d]
               /\ built'[d] = built[d] \/ built'[d] = "native"
    BY <2>5 DEF PanelRestart, Leave
  <2>6. ASSUME RemoveApp \/ RemoveProject PROVE UNCHANGED deployVars
    BY <2>6 DEF RemoveApp, RemoveProject
  <2>7. ASSUME NEW old \in SUBSET Command, ClearHistory(old) PROVE UNCHANGED deployVars
    BY <2>7 DEF ClearHistory
  <2>8. QED
    BY <2>1, <2>2, <2>3, <2>4, <2>5, <2>6, <2>7 DEF Next
<1>2. \A d \in Deploy : pc'[d] \in {"new", "reading"} => phase'[d] = 1
  BY <1>1 DEF HeldIsRunnable
<1>3. \A p : Available(p, "native")
  BY DEF Available
<1>4. ASSUME NEW d \in Deploy, NEW k \in Held(d)'
      PROVE  pc'[d] # "new" /\ Available(row'[k].text.phase, built'[d])
  <2>0. k \in Command
    BY DEF Held
  <2>1. CASE k \in Held(d) /\ row'[k].text = row[k].text
    <3>1. pc[d] # "new" /\ Available(row[k].text.phase, built[d])
      BY <2>1 DEF HeldIsRunnable
    <3>2. ~\E runtime \in Runtime : Claim(d, runtime)
      BY <3>1 DEF Claim, At
    <3>3. pc'[d] # "new" /\ (built'[d] = built[d] \/ built'[d] = "native")
      BY <1>1, <3>1, <3>2
    <3>4. QED
      BY <1>3, <2>1, <3>1, <3>3
  <2>2. ASSUME NEW runtime \in Runtime, Claim(d, runtime), Takeable(k, runtime),
               row'[k].text = row[k].text
        PROVE  pc'[d] # "new" /\ Available(row'[k].text.phase, built'[d])
    <3>1. pc'[d] = "reading" /\ built'[d] = runtime
      BY <1>0, <2>2 DEF Claim, Goto, TypeOK
    <3>2. Available(row[k].text.phase, runtime)
      BY <2>2 DEF Takeable
    <3>3. QED
      BY <2>2, <3>1, <3>2
  <2>3. QED
    BY <2>0, <2>1, <2>2, HeldRowMoves
<1>5. ASSUME NEW d \in Deploy, NEW k \in Command, Holds(d, k)'
      PROVE  Available(taken'[d][k].phase, built'[d])
  <2>1. CASE ReadBack(d)
    <3>1. k \in Held(d) /\ taken'[d][k] = row[k].text /\ built'[d] = built[d]
      BY <1>0, <1>5, <2>1 DEF ReadBack, Holds, TypeOK
    <3>2. QED
      BY <3>1 DEF HeldIsRunnable
  <2>2. CASE Holds(d, k) /\ taken'[d][k] = taken[d][k] /\ built'[d] = built[d]
    BY <2>2 DEF HeldIsRunnable
  <2>3. QED
    BY <1>5, <2>1, <2>2, HolderMoves
<1>6. QED
  BY <1>2, <1>4, <1>5 DEF HeldIsRunnable

\* A phase is left when nothing of it is due, or when its rows wait for the
\* checkout, or when the runtime has no such phase, and then there are none.
LEMMA TurnStep ==
  ASSUME CommandInv, HeldIsRunnable, InTurn, Next
  PROVE  InTurn'
<1> SUFFICES ASSUME NEW d \in Deploy, NEW k \in Command, Holds(d, k)'
             PROVE  taken'[d][k].phase = 1
                    \/ (taken'[d][k].phase >= phase'[d] /\ pc'[d] # "finished")
  BY DEF InTurn, At
<1>0. TypeOK /\ CurIsHeld
  BY DEF CommandInv
<1>1. CASE ReadBack(d)
  <2>1. pc'[d] = "working" /\ phase'[d] = 1
    BY <1>0, <1>1 DEF ReadBack, At, Goto, TypeOK, HeldIsRunnable
  <2>2. taken'[d][k] \in Text
    BY <1>0, TypeStep DEF TypeOK, Holds
  <2>3. taken'[d][k].phase >= 1
    BY <2>2 DEF Text, Phase
  <2>4. QED
    BY <2>1, <2>3
<1>2. ASSUME Holds(d, k), taken'[d][k] = taken[d][k], NextPhase(d)
      PROVE  taken[d][k].phase = 1
             \/ (taken[d][k].phase >= phase'[d] /\ pc'[d] # "finished")
  <2> DEFINE p == taken[d][k].phase
  <2>1. p \in Phase /\ phase[d] \in Phase
    BY <1>0, <1>2 DEF TypeOK, Holds, Text
  <2>2. p = 1 \/ p >= phase[d]
    BY <1>2 DEF InTurn
  <2>3. p # phase[d] \/ phase[d] = 1
    <3>1. Available(p, built[d])
      BY <1>2 DEF HeldIsRunnable
    <3>2. QED
      BY <1>2, <3>1 DEF NextPhase, Due
  <2>4. p = 1 \/ p > phase[d]
    BY <2>1, <2>2, <2>3 DEF Phase
  <2>5. CASE phase[d] = LastPhase
    BY <2>1, <2>4, <2>5, CommandAssumption DEF Phase
  <2>6. CASE phase[d] # LastPhase
    <3>1. phase'[d] = phase[d] + 1 /\ pc' = pc /\ pc[d] = "working"
      BY <1>0, <1>2, <2>6 DEF NextPhase, TypeOK, At
    <3>2. QED
      BY <2>1, <2>4, <3>1 DEF Phase
  <2>7. QED
    BY <2>5, <2>6
<1>3. ASSUME Holds(d, k), taken'[d][k] = taken[d][k],
             phase'[d] = phase[d], pc'[d] = "finished" => pc[d] = "finished"
      PROVE  taken'[d][k].phase = 1
             \/ (taken'[d][k].phase >= phase'[d] /\ pc'[d] # "finished")
  BY <1>3 DEF InTurn, At
<1>4. QED
  BY <1>1, <1>2, <1>3, HolderMoves

-----------------------------------------------------------------------------

\* Every step keeps the history's invariant.
LEMMA HistoryStep == HistoryInv /\ [Next]_vars => HistoryInv'
<1> SUFFICES ASSUME HistoryInv, [Next]_vars PROVE HistoryInv'
  OBVIOUS
<1>0. CommandInv'
  BY CommandStep DEF HistoryInv
<1>1. CASE Next
  BY <1>0, <1>1, GoneStep, CountStep, WonStep, RunnableStep, TurnStep DEF HistoryInv
<1>2. CASE UNCHANGED vars
  <2> USE <1>2 DEF HistoryInv, vars, deployVars, historyVars
  <2>1. GoneIsGone' /\ Counted' /\ AttemptsAreCounted'
    BY DEF GoneIsGone, Counted, AttemptsAreCounted, Is
  <2>2. WonIsKept'
    BY DEF WonIsKept, Is, At
  <2>3. HeldIsRunnable' /\ InTurn'
    BY DEF HeldIsRunnable, InTurn, Held, Holds, Is, At
  <2>4. QED
    BY <1>0, <2>1, <2>2, <2>3
<1>3. QED
  BY <1>1, <1>2

\* The invariant behind the history of the table.
THEOREM HistoryCorrect == Spec => []HistoryInv
<1>1. QED
  BY HistoryInit, HistoryStep, PTL DEF Spec

\* A row whose command was ever started counts it, whatever a crash, a release
\* or an edit made of the row since.
THEOREM CommandsCounted == Spec => []AttemptsAreCounted
<1>1. HistoryInv => AttemptsAreCounted
  BY DEF HistoryInv
<1>2. QED
  BY <1>1, HistoryCorrect, PTL

\* Unless an outcome was lost, a command that exited with 0 is not queued again.
THEOREM CommandsSucceedOnce == Spec => []SucceedsOnce
<1>1. HistoryInv => SucceedsOnce
  <2> SUFFICES ASSUME HistoryInv, ~interrupted, NEW k \in won, Is(k, "queued")
               PROVE  FALSE
    BY DEF SucceedsOnce
  <2> USE DEF HistoryInv, CommandInv
  <2>1. PICK d \in Deploy : At(d, "succeeded") /\ cur[d] = k
    BY DEF WonIsKept, Is
  <2>2. Holds(d, k) /\ k \in Command
    BY <2>1 DEF CurIsHeld, At, Running
  <2>3. QED
    BY <2>2, HeldIsClaimed DEF Is
<1>2. QED
  BY <1>1, HistoryCorrect, PTL

\* A deploy that passed every phase has no row left but those for before there
\* was a checkout.
THEOREM FinishedDeploysClean == Spec => []FinishedIsClean
<1>1. HistoryInv => FinishedIsClean
  BY DEF HistoryInv, InTurn, FinishedIsClean
<1>2. QED
  BY <1>1, HistoryCorrect, PTL

\* A spent row changes in nothing until it is deleted, and no deleted row comes
\* back.
THEOREM CommandHistoryFinal == Spec => HistoryIsFinal
<1>1. HistoryInv /\ [Next]_vars =>
        [\A k \in Command :
           /\ Spent(k) => row'[k] \in {row[k], NoRow("gone")}
           /\ Is(k, "gone") => row'[k] = row[k]]_vars
  <2> SUFFICES ASSUME HistoryInv, Next, NEW k \in Command
               PROVE  /\ Spent(k) => row'[k] \in {row[k], NoRow("gone")}
                      /\ Is(k, "gone") => row'[k] = row[k]
    OBVIOUS
  <2>1. RowMoves(k)
    BY RowLife DEF HistoryInv
  <2>2. Is(k, "gone") => row[k] = NoRow("gone")
    BY DEF HistoryInv, GoneIsGone
  <2>3. QED
    BY <2>1, <2>2 DEF RowMoves, Spent, Is
<1>2. QED
  BY <1>1, HistoryCorrect, PTL DEF Spec, HistoryIsFinal
=============================================================================
