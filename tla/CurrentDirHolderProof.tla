----------------------- MODULE CurrentDirHolderProof -----------------------
(***************************************************************************)
(* CurrentDirHolder for any number of sessions and directories.            *)
(*                                                                         *)
(* The argument: inside the monitor the four places that record the        *)
(* directory are a function of how far the holder has got, but for PWD     *)
(* where a client has put its own, so they agree with currentDir whenever  *)
(* the monitor is free; the session that set currentDir has not left       *)
(* before it is cleared; and if no two sessions share a directory, only    *)
(* that session can clear it.                                              *)
(***************************************************************************)
EXTENDS CurrentDirHolder, TLAPS

Native(dir) == IF dir \in Existing THEN dir ELSE Home
Locked == Setting \cup Resetting

\* Only a session with a Cwd header comes near the monitor, and only one whose
\* client propagates PWD puts it.
HasCwd == \A s \in Sessions :
    /\ pc[s] \in Locked \cup {"reset", "failed"} => cwd[s] # NoDir
    /\ pc[s] = "envCache" => pwd[s] # NoDir

LockOK == /\ \A s \in Sessions : pc[s] \in Locked <=> holder = s
          /\ NoSession \notin Sessions

\* What the holder has written so far.
SettingOK == \A s \in Sessions : pc[s] \in Setting =>
    /\ currentDir = NoDir
    /\ userDir = IF pc[s] = "setUserDir" THEN Home ELSE cwd[s]
    /\ nativeDir = IF pc[s] \in {"setUserDir", "setNative"} THEN Home ELSE Native(cwd[s])
    /\ pwdNative \in PutNatively \cup
                     {IF pc[s] \in {"setPwdCache", "setCurrent"} THEN cwd[s] ELSE Home}
    /\ pwdCache \in PutInCache \cup {IF pc[s] = "setCurrent" THEN cwd[s] ELSE Home}

ResettingOK == \A s \in Sessions : pc[s] \in Resetting =>
    /\ currentDir # NoDir
    /\ userDir = IF pc[s] = "resetUserDir" THEN currentDir ELSE Home
    /\ pwdNative \in PutNatively \cup
                     {IF pc[s] \in {"resetUserDir", "resetPwd"} THEN currentDir ELSE Home}
    /\ pwdCache \in PutInCache \cup
                     {IF pc[s] \in {"resetNative", "resetCurrent"} THEN Home ELSE currentDir}
    /\ nativeDir = IF pc[s] = "resetCurrent" THEN Home ELSE Native(currentDir)

\* Without sharing, a session between setDir and the end of reset owns the directory.
Owns == Distinct => \A s \in Sessions :
    pc[s] \in InScript \cup Resetting /\ cwd[s] # NoDir => currentDir = cwd[s]

IInv == /\ TypeOK /\ HasCwd /\ LockOK /\ SettingOK /\ ResettingOK /\ DirsAgree
        /\ SetDirHasSession /\ Owns

\* The server starts in its own directory, with no session.
THEOREM Initial == Init => IInv
BY DirsAssumption, SessionsAssumption
   DEF Init, IInv, TypeOK, HasCwd, LockOK, SettingOK, ResettingOK, DirsAgree, SetDirHasSession,
       Owns, Labels, InScript, Locked, Setting, Resetting

\* What was propagated stays among the values that were propagated.
LEMMA PutStays ==
    ASSUME TypeOK, NEW self \in Sessions, Serve(self)
    PROVE  /\ PutNatively \subseteq PutNatively' /\ PutInCache \subseteq PutInCache'
           /\ request' = request
<1>1. request' = request
  BY DEF Serve, SetDir, SetupEnvVars, Reset, NoCwd, SameDir, RefuseDir, EnterSetDir, SetUserDir,
         SetNative, SetPwd, SetPwdCache, SetCurrentDir, NothingToPut, PutNative, PutCache,
         ScriptEnds, ResetNothing, EnterReset, ResetUserDir, ResetPwd, ResetPwdCache,
         ResetNative, ResetCurrentDir
<1>2. ASSUME NEW s \in Sessions
      PROVE  /\ pc[s] \in AfterPut => pc'[s] \in AfterPut
             /\ pc[s] = "envCache" => pc'[s] \in AfterPut \cup {"envCache"}
  <2> USE DEF TypeOK, Step, AfterPut, Resetting
  <2>1. CASE SetDir(self)
    BY <2>1 DEF SetDir, NoCwd, SameDir, RefuseDir, EnterSetDir, SetUserDir, SetNative, SetPwd,
                SetPwdCache, SetCurrentDir
  <2>2. CASE SetupEnvVars(self) \/ ScriptEnds(self)
    BY <2>2 DEF SetupEnvVars, NothingToPut, PutNative, PutCache, ScriptEnds
  <2>3. CASE Reset(self)
    BY <2>3 DEF Reset, ResetNothing, EnterReset, ResetUserDir, ResetPwd, ResetPwdCache,
                ResetNative, ResetCurrentDir
  <2>. QED
    BY <2>1, <2>2, <2>3 DEF Serve
<1>. QED
  BY <1>1, <1>2 DEF PutNatively, PutInCache, request

\* One step of one session keeps the invariant.
LEMMA ServeKeeps == ASSUME IInv, NEW self \in Sessions, Serve(self) PROVE IInv'
<1>0. /\ PutNatively \subseteq PutNatively' /\ PutInCache \subseteq PutInCache'
      /\ request' = request
  BY PutStays DEF IInv
<1>. USE DirsAssumption
     DEF IInv, TypeOK, HasCwd, LockOK, SettingOK, ResettingOK, DirsAgree, SetDirHasSession,
         Owns, Distinct, Native, Labels, InScript, Locked, Setting, Resetting, dirVars, request,
         Step
<1>1. CASE NoCwd(self)
  BY <1>0, <1>1 DEF NoCwd
<1>2. CASE SameDir(self)
  BY <1>0, <1>2 DEF SameDir
<1>3. CASE RefuseDir(self)
  BY <1>0, <1>3 DEF RefuseDir
<1>4. CASE EnterSetDir(self)
  BY <1>0, <1>4 DEF EnterSetDir
<1>5. CASE SetUserDir(self)
  BY <1>0, <1>5 DEF SetUserDir
<1>6. CASE SetNative(self)
  BY <1>0, <1>6 DEF SetNative, chdir
<1>7. CASE SetPwd(self)
  BY <1>0, <1>7 DEF SetPwd
<1>8. CASE SetPwdCache(self)
  BY <1>0, <1>8 DEF SetPwdCache
<1>9. CASE SetCurrentDir(self)
  BY <1>0, <1>9 DEF SetCurrentDir
<1>20. CASE NothingToPut(self)
  BY <1>0, <1>20 DEF NothingToPut
<1>10. CASE PutNative(self)
  BY <1>0, <1>10 DEF PutNative, PutNatively, AfterPut
<1>11. CASE PutCache(self)
  BY <1>0, <1>11 DEF PutCache, PutInCache, AfterPut
<1>12. CASE ScriptEnds(self)
  BY <1>0, <1>12 DEF ScriptEnds
<1>13. CASE ResetNothing(self)
  BY <1>0, <1>13 DEF ResetNothing
<1>14. CASE EnterReset(self)
  BY <1>0, <1>14 DEF EnterReset
<1>15. CASE ResetUserDir(self)
  BY <1>0, <1>15 DEF ResetUserDir
<1>16. CASE ResetPwd(self)
  BY <1>0, <1>16 DEF ResetPwd
<1>17. CASE ResetPwdCache(self)
  BY <1>0, <1>17 DEF ResetPwdCache
<1>18. CASE ResetNative(self)
  BY <1>0, <1>18 DEF ResetNative, chdir
<1>19. CASE ResetCurrentDir(self)
  BY <1>0, <1>19 DEF ResetCurrentDir
<1>. HIDE DEF IInv
<1>. QED
  BY <1>1, <1>2, <1>3, <1>4, <1>5, <1>6, <1>7, <1>8, <1>9, <1>10, <1>11, <1>12, <1>13,
     <1>14, <1>15, <1>16, <1>17, <1>18, <1>19, <1>20 DEF Serve, SetDir, SetupEnvVars, Reset

\* No assignment of setDir, reset or put breaks it, whatever the sessions interleave.
THEOREM Inductive == IInv /\ [Next]_vars => IInv'
<1> SUFFICES ASSUME IInv, [Next]_vars PROVE IInv'
  OBVIOUS
<1>1. ASSUME NEW self \in Sessions, Serve(self) PROVE IInv'
  BY <1>1, ServeKeeps
<1>2. CASE UNCHANGED vars
  BY <1>2 DEF vars, dirVars, request, PutNatively, PutInCache, IInv, TypeOK, HasCwd, LockOK, SettingOK, ResettingOK,
              DirsAgree, SetDirHasSession, Owns, Distinct
<1>. QED
  BY <1>1, <1>2 DEF Next, AllOver

\* It holds in every reachable state.
THEOREM Invariance == Spec => []IInv
BY Initial, Inductive, PTL DEF Spec

\* Every variable keeps its type.
THEOREM TypeCorrect == Spec => []TypeOK
<1>1. IInv => TypeOK
  BY DEF IInv
<1>. QED
  BY Invariance, <1>1, PTL

\* While the monitor is free user.dir and the native directory are currentDir's,
\* and so is PWD where no client has put its own.
THEOREM Agreement == Spec => []DirsAgree
<1>1. IInv => DirsAgree
  BY DEF IInv
<1>. QED
  BY Invariance, <1>1, PTL

\* A refused session really competes with one that has not reset yet.
THEOREM RefusalIsJustified == Spec => []SetDirHasSession
<1>1. IInv => SetDirHasSession
  BY DEF IInv
<1>. QED
  BY Invariance, <1>1, PTL

\* An idle server is back in its own directory; its PWD may be one that a client
\* propagated.
THEOREM IdleServer == Spec => []IdleIsHome
<1>1. IInv => IdleIsHome
  BY DirsAssumption
     DEF IInv, TypeOK, LockOK, DirsAgree, SetDirHasSession, IdleIsHome, Locked, Setting, Resetting, InScript
<1>. QED
  BY Invariance, <1>1, PTL

\* If no two sessions come from the same directory, every script runs in its own.
THEOREM OwnDirectory == Spec => []RunsInOwnDirIfDistinct
<1>1. IInv => RunsInOwnDirIfDistinct
  <2> SUFFICES ASSUME IInv, Distinct, NEW s \in Sessions,
                      pc[s] \in InScript, cwd[s] # NoDir, cwd[s] \in Existing
               PROVE  /\ currentDir = cwd[s] /\ userDir = cwd[s] /\ nativeDir = cwd[s]
                      /\ pwdNative \in {cwd[s]} \cup PutNatively
                      /\ pwdCache \in {cwd[s]} \cup PutInCache
    BY DEF RunsInOwnDirIfDistinct, RunsInOwnDir
  <2>1. currentDir = cwd[s]
    BY DEF IInv, Owns
  <2>2. holder = NoSession
    <3>1. SUFFICES ASSUME NEW t \in Sessions, holder = t PROVE FALSE
      BY DEF IInv, TypeOK
    <3>2. pc[t] \in Locked /\ cwd[t] # NoDir
      BY <3>1 DEF IInv, LockOK, HasCwd
    <3>3. currentDir # NoDir /\ t # s
      BY <2>1, <3>2 DEF Locked, Setting, Resetting, InScript
    <3>4. currentDir = cwd[t]
      BY <3>2, <3>3 DEF IInv, SettingOK, Owns, Locked
    <3>. QED
      BY <2>1, <3>2, <3>3, <3>4 DEF Distinct
  <2>. QED
    BY <2>1, <2>2, DirsAssumption DEF IInv, DirsAgree
<1>. QED
  BY Invariance, <1>1, PTL
=============================================================================
