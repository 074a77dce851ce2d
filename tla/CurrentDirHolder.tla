-------------------------- MODULE CurrentDirHolder --------------------------
(***************************************************************************)
(* The process-wide state that every session's GroovyInvokeHandler sets    *)
(* before it runs its script: CurrentDirHolder (user.dir, the native       *)
(* working directory, PWD) under its monitor, and EnvironmentVariables     *)
(* (native environment and cache) under none.  Of the variables that a     *)
(* client may propagate the model has PWD, the one that these two share.   *)
(***************************************************************************)
CONSTANTS Sessions,  \* the requests being served
          Dirs,      \* directories clients are in
          Existing,  \* those that exist for the server: chdir's result is ignored
          Home,      \* ORIGINAL_USER_DIR and ORIGINAL_PWD
          NoDir      \* null: no Cwd header, or no current directory set

ASSUME DirsAssumption == /\ Existing \subseteq Dirs
                         /\ Home \notin Dirs
                         /\ NoDir \notin Dirs \cup {Home}

VARIABLES cwd,         \* request.cwd of each session
          pwd,         \* PWD in its request.envVars; NoDir: not propagated
          pc,          \* where each session's invoke thread is
          holder,      \* session inside the CurrentDirHolder monitor
          currentDir,  \* CurrentDirHolder.currentDir
          userDir,     \* System.properties["user.dir"]
          nativeDir,   \* the process's working directory
          pwdNative, pwdCache  \* PWD, natively and in System.getenv

dirVars == <<currentDir, userDir, nativeDir, pwdNative, pwdCache>>
request == <<cwd, pwd>>
vars == <<request, pc, holder, dirVars>>

NoSession == "none"
ASSUME SessionsAssumption == NoSession \notin Sessions

Init ==
    /\ cwd \in [Sessions -> Dirs \cup {NoDir}]
    /\ pwd \in [Sessions -> Dirs \cup {NoDir}]
    /\ pc = [s \in Sessions |-> "start"]
    /\ holder = NoSession
    /\ currentDir = NoDir
    /\ userDir = Home /\ nativeDir = Home
    /\ pwdNative = Home /\ pwdCache = Home

Step(s, from, to) == pc[s] = from /\ pc' = [pc EXCEPT ![s] = to]

\* LIBC.chdir: fails silently for a directory the server cannot enter.
chdir(dir) == nativeDir' = IF dir \in Existing \cup {Home} THEN dir ELSE nativeDir

-----------------------------------------------------------------------------
(* setDir                                                                  *)

NoCwd(s) ==
    /\ cwd[s] = NoDir
    /\ Step(s, "start", "env")
    /\ UNCHANGED <<request, holder, dirVars>>

SameDir(s) ==
    /\ cwd[s] # NoDir /\ holder = NoSession
    /\ currentDir = cwd[s]
    /\ Step(s, "start", "env")
    /\ UNCHANGED <<request, holder, dirVars>>

\* Mutant of RefuseDir: shouldResetCurrentDir is not cleared.
RefuseDirThenReset(s) ==
    /\ cwd[s] # NoDir /\ holder = NoSession
    /\ currentDir \notin {NoDir, cwd[s]}
    /\ Step(s, "start", "reset")
    /\ UNCHANGED <<request, holder, dirVars>>

\* GServIllegalStateException: the handler fails and does not reset.
RefuseDir(s) ==
    /\ cwd[s] # NoDir /\ holder = NoSession
    /\ currentDir \notin {NoDir, cwd[s]}
    /\ Step(s, "start", "failed")
    /\ UNCHANGED <<request, holder, dirVars>>

EnterSetDir(s) ==
    /\ cwd[s] # NoDir /\ holder = NoSession
    /\ currentDir = NoDir
    /\ holder' = s
    /\ Step(s, "start", "setUserDir")
    /\ UNCHANGED <<request, dirVars>>

SetUserDir(s) ==
    /\ Step(s, "setUserDir", "setNative")
    /\ userDir' = cwd[s]
    /\ UNCHANGED <<request, holder, currentDir, nativeDir, pwdNative, pwdCache>>

SetNative(s) ==
    /\ Step(s, "setNative", "setPwd")
    /\ chdir(cwd[s])
    /\ UNCHANGED <<request, holder, currentDir, userDir, pwdNative, pwdCache>>

SetPwd(s) ==
    /\ Step(s, "setPwd", "setPwdCache")
    /\ pwdNative' = cwd[s]
    /\ UNCHANGED <<request, holder, currentDir, userDir, nativeDir, pwdCache>>

SetPwdCache(s) ==
    /\ Step(s, "setPwdCache", "setCurrent")
    /\ pwdCache' = cwd[s]
    /\ UNCHANGED <<request, holder, currentDir, userDir, nativeDir, pwdNative>>

SetCurrentDir(s) ==
    /\ Step(s, "setCurrent", "env")
    /\ currentDir' = cwd[s]
    /\ holder' = NoSession
    /\ UNCHANGED <<request, userDir, nativeDir, pwdNative, pwdCache>>

-----------------------------------------------------------------------------
(* setupEnvVars: EnvironmentVariables.put, under no monitor; the script     *)

NothingToPut(s) ==
    /\ pwd[s] = NoDir
    /\ Step(s, "env", "script")
    /\ UNCHANGED <<request, holder, dirVars>>

PutNative(s) ==
    /\ pwd[s] # NoDir
    /\ Step(s, "env", "envCache")
    /\ pwdNative' = pwd[s]
    /\ UNCHANGED <<request, holder, currentDir, userDir, nativeDir, pwdCache>>

PutCache(s) ==
    /\ Step(s, "envCache", "script")
    /\ pwdCache' = pwd[s]
    /\ UNCHANGED <<request, holder, currentDir, userDir, nativeDir, pwdNative>>

\* Mutant of ScriptEnds: no reset in a finally block.
ScriptEndsWithoutReset(s) ==
    /\ Step(s, "script", "done")
    /\ UNCHANGED <<request, holder, dirVars>>

\* The invocation ends, in whatever way; the finally block resets if a Cwd was set.
ScriptEnds(s) ==
    /\ Step(s, "script", IF cwd[s] = NoDir THEN "done" ELSE "reset")
    /\ UNCHANGED <<request, holder, dirVars>>

-----------------------------------------------------------------------------
(* reset                                                                   *)

ResetNothing(s) ==
    /\ holder = NoSession
    /\ currentDir = NoDir
    /\ Step(s, "reset", "done")
    /\ UNCHANGED <<request, holder, dirVars>>

\* Mutant of EnterReset: the reset is not synchronized.
EnterResetUnlocked(s) ==
    /\ currentDir # NoDir
    /\ Step(s, "reset", "resetUserDir")
    /\ UNCHANGED <<request, holder, dirVars>>

EnterReset(s) ==
    /\ holder = NoSession
    /\ currentDir # NoDir
    /\ holder' = s
    /\ Step(s, "reset", "resetUserDir")
    /\ UNCHANGED <<request, dirVars>>

ResetUserDir(s) ==
    /\ Step(s, "resetUserDir", "resetPwd")
    /\ userDir' = Home
    /\ UNCHANGED <<request, holder, currentDir, nativeDir, pwdNative, pwdCache>>

ResetPwd(s) ==
    /\ Step(s, "resetPwd", "resetPwdCache")
    /\ pwdNative' = Home
    /\ UNCHANGED <<request, holder, currentDir, userDir, nativeDir, pwdCache>>

ResetPwdCache(s) ==
    /\ Step(s, "resetPwdCache", "resetNative")
    /\ pwdCache' = Home
    /\ UNCHANGED <<request, holder, currentDir, userDir, nativeDir, pwdNative>>

ResetNative(s) ==
    /\ Step(s, "resetNative", "resetCurrent")
    /\ chdir(Home)
    /\ UNCHANGED <<request, holder, currentDir, userDir, pwdNative, pwdCache>>

ResetCurrentDir(s) ==
    /\ Step(s, "resetCurrent", "done")
    /\ currentDir' = NoDir
    /\ holder' = NoSession
    /\ UNCHANGED <<request, userDir, nativeDir, pwdNative, pwdCache>>

-----------------------------------------------------------------------------
SetDir(s) == \/ NoCwd(s) \/ SameDir(s) \/ RefuseDir(s) \/ EnterSetDir(s) \/ SetUserDir(s)
             \/ SetNative(s) \/ SetPwd(s) \/ SetPwdCache(s) \/ SetCurrentDir(s)
Reset(s) == \/ ResetNothing(s) \/ EnterReset(s) \/ ResetUserDir(s) \/ ResetPwd(s)
            \/ ResetPwdCache(s) \/ ResetNative(s) \/ ResetCurrentDir(s)
SetupEnvVars(s) == NothingToPut(s) \/ PutNative(s) \/ PutCache(s)
Serve(s) == SetDir(s) \/ SetupEnvVars(s) \/ ScriptEnds(s) \/ Reset(s)

AllOver == (\A s \in Sessions : pc[s] \in {"done", "failed"}) /\ UNCHANGED vars

Next == (\E s \in Sessions : Serve(s)) \/ AllOver
Spec == Init /\ [][Next]_vars

-----------------------------------------------------------------------------
(* Properties                                                              *)

Setting == {"setUserDir", "setNative", "setPwd", "setPwdCache", "setCurrent"}
Resetting == {"resetUserDir", "resetPwd", "resetPwdCache", "resetNative", "resetCurrent"}
\* Between setDir's return and the call of reset.
InScript == {"env", "envCache", "script", "reset"}
Labels == Setting \cup Resetting \cup InScript \cup {"start", "failed", "done"}

\* Every variable stays in its domain: the type invariant.
TypeOK ==
    /\ cwd \in [Sessions -> Dirs \cup {NoDir}]
    /\ pwd \in [Sessions -> Dirs \cup {NoDir}]
    /\ pc \in [Sessions -> Labels]
    /\ holder \in Sessions \cup {NoSession}
    /\ currentDir \in Dirs \cup {NoDir}
    /\ {userDir, nativeDir, pwdNative, pwdCache} \subseteq Dirs \cup {Home}

\* The values of PWD that clients have propagated so far, natively and in the cache.
AfterPut == {"script", "reset", "done"} \cup Resetting
PutNatively == {dir \in Dirs : \E s \in Sessions :
                                  pwd[s] = dir /\ pc[s] \in AfterPut \cup {"envCache"}}
PutInCache == {dir \in Dirs : \E s \in Sessions : pwd[s] = dir /\ pc[s] \in AfterPut}

\* Whenever no session is inside the monitor, user.dir and the native directory
\* are currentDir's, whatever sessions come and go. So are the two copies of
\* PWD, unless they hold a value that some client propagated itself.
DirsAgree ==
    holder = NoSession =>
        LET dir == IF currentDir = NoDir THEN Home ELSE currentDir IN
        /\ userDir = dir
        /\ nativeDir = IF dir \in Existing THEN dir ELSE Home
        /\ pwdNative \in {dir} \cup PutNatively
        /\ pwdCache \in {dir} \cup PutInCache

\* A refusal blames "another session ... running on different directory": a set
\* directory always belongs to a session that has not yet reset it.
SetDirHasSession ==
    currentDir # NoDir =>
        \E s \in Sessions : cwd[s] = currentDir /\ pc[s] \in InScript \cup Resetting

\* When no session is being served the server is back in its own directory; PWD
\* may be what a client propagated.
IdleIsHome ==
    (\A s \in Sessions : pc[s] \in {"start", "done", "failed"}) =>
        /\ currentDir = NoDir /\ userDir = Home /\ nativeDir = Home
        /\ pwdNative \in {Home} \cup PutNatively
        /\ pwdCache \in {Home} \cup PutInCache

\* A script runs in its client's directory, with a PWD that says so unless some
\* client propagated its own.
RunsInOwnDir ==
    \A s \in Sessions :
        pc[s] \in InScript /\ cwd[s] # NoDir /\ cwd[s] \in Existing =>
            /\ currentDir = cwd[s] /\ userDir = cwd[s] /\ nativeDir = cwd[s]
            /\ pwdNative \in {cwd[s]} \cup PutNatively
            /\ pwdCache \in {cwd[s]} \cup PutInCache

\* ... as long as no two sessions come from the same directory.
Distinct == \A s, t \in Sessions : s # t /\ cwd[s] # NoDir => cwd[s] # cwd[t]
RunsInOwnDirIfDistinct == Distinct => RunsInOwnDir
=============================================================================
