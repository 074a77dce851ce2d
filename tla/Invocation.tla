------------------------------ MODULE Invocation ------------------------------
(***************************************************************************)
(* From a command line to a script: the native client takes its own        *)
(* options out of the arguments (scan_options, option.c), acts on them     *)
(* (main, groovyclient.c) and sends what is left in the header of an       *)
(* invocation request (send_header, session.c); the server parses the      *)
(* header (ClientProtocols), checks the token (InvocationRequest), puts    *)
(* the environment and takes the classpath out of the arguments            *)
(* (GroovyInvokeHandler).                                                  *)
(*                                                                         *)
(* A header line is a record. The value of an environment variable may     *)
(* have several lines; those after the first are header lines like any     *)
(* other to the server, whatever their key. The server is up:              *)
(* ServerLifecycle is about how it comes up.                               *)
(***************************************************************************)
EXTENDS Naturals, Sequences, SequencesExt

CONSTANTS Words,        \* what a command line is made of
          MaxArgs,      \* bound: length of a command line
          MAX_MASK,     \* masks of each kind that the client has room for: 10 in the code
          Unrecognized, \* words that begin like an option of the client but are none
          Ports,        \* words that are numbers
          Split(_),     \* the paths of a word that is a classpath
          Includes(_, _), \* strstr: a variable's name includes a word
          Environs,     \* environments of the client: sequences of [name, value, rest]
          Classpaths,   \* values of CLASSPATH: sequences of paths, empty if not set
          ServerToken   \* the token that the server expects

None == "none"
NULL == "NULL"
Undecodable == "undecodable"

WithValue == {"-Chost", "-Cport", "-Cauthtoken", "-Cenv", "-Cenv-exclude"}
Flags == {"-Ckill-server", "-Crestart-server", "-Cquiet", "-Cenv-all"}
Informative == {"-Chelp", "-Cversion"}
ClientOptions == WithValue \cup Flags \cup Informative \cup Unrecognized
CLASSPATH_OPTIONS == {"--classpath", "-cp", "-classpath"}

ASSUME ConstantsAssumption ==
    /\ MaxArgs \in Nat /\ MAX_MASK \in Nat
    /\ {None, NULL, Undecodable} \cap Words = {} /\ ServerToken # None
    /\ Unrecognized \cap (WithValue \cup Flags \cup Informative \cup CLASSPATH_OPTIONS) = {}

TextLine == [text : STRING, padded : BOOLEAN]

\* What a line may be that a value has behind its first: nothing, a word that an
\* argument's line encodes or what is no Base64, a variable, a classpath, a command,
\* or a line of another key, of which there are Cwd, Protocol and unknown ones.
RestLine == [key : {""}, value : {None}]
            \cup [key : {"Arg"}, value : Words \cup {Undecodable}]
            \cup [key : {"Env"}, value : STRING \X TextLine]
            \cup [key : {"Cp"}, value : Seq(STRING)]
            \cup [key : {"Auth", "Cmd", "other"}, value : STRING]

\* A variable has a name, a value's first line and its rest; a classpath is a list of paths.
ASSUME DataAssumption ==
    /\ Environs \subseteq Seq([name : STRING, value : TextLine, rest : Seq(RestLine)])
    /\ Classpaths \subseteq Seq(STRING)
    /\ \A w \in Words : Split(w) \in Seq(STRING)

VARIABLES typed,    \* the command line as it was typed
          argv,     \* the client's array, in which it replaces its options by NULL
          i,        \* the index of the loop at work
          option,   \* client_option
          environ,  \* the client's environment, known from the sending on
          cp,       \* its CLASSPATH
          wire,     \* header lines that were sent and not yet read
          request,  \* the server's InvocationRequest
          env,      \* what was put into the server's environment
          paths,    \* the classpath the handler has gathered
          args,     \* the arguments it has kept
          pc        \* where the invocation is, or how it ended

client == <<typed, argv, i, option>>
sent == <<environ, cp, wire>>
server == <<request, env, paths, args>>
vars == <<client, sent, server, pc>>

\* The entries of a sequence at some positions, in order.
Picked(seq, positions) ==
    LET upTo[n \in 0 .. Len(seq)] ==
          IF n = 0 THEN <<>>
          ELSE IF n \in positions THEN Append(upTo[n - 1], seq[n]) ELSE upTo[n - 1]
    IN  upTo[Len(seq)]

Ended == {"error", "printed", "killed", "invalidToken", "invalidHeader", "command", "script"}

Init ==
    /\ typed \in UNION {[1 .. n -> Words] : n \in 0 .. MaxArgs}
    /\ argv = typed
    /\ i = 1
    /\ option = [host |-> None, authtoken |-> None, kill |-> FALSE, restart |-> FALSE,
                 env_all |-> FALSE, env_include_mask |-> <<>>, env_exclude_mask |-> <<>>]
    /\ environ = <<>> /\ cp = <<>> /\ wire = <<>>
    /\ request = [clientAuthToken |-> None, args |-> <<>>, envVars |-> <<>>, classpath |-> <<>>,
                  command |-> None]
    /\ env = {} /\ paths = <<>> /\ args = <<>>
    /\ pc = "scan"

-----------------------------------------------------------------------------
(* scan_options                                                            *)

Scanning == pc = "scan" /\ i <= Len(argv)

\* What is not an option of the client's is left to Groovy.
Argument ==
    /\ Scanning
    /\ argv[i] \notin ClientOptions
    /\ i' = i + 1
    /\ UNCHANGED <<typed, argv, option, sent, server, pc>>

Flag ==
    /\ Scanning
    /\ argv[i] \in Flags
    /\ option' = CASE argv[i] = "-Ckill-server" -> [option EXCEPT !.kill = TRUE]
                   [] argv[i] = "-Crestart-server" -> [option EXCEPT !.restart = TRUE]
                   [] argv[i] = "-Cenv-all" -> [option EXCEPT !.env_all = TRUE]
                   [] OTHER -> option
    /\ argv' = [argv EXCEPT ![i] = NULL]
    /\ i' = i + 1
    /\ UNCHANGED <<typed, sent, server, pc>>

\* Usage or version are printed at once, whatever follows.
Inform ==
    /\ Scanning
    /\ argv[i] \in Informative
    /\ pc' = "printed"
    /\ UNCHANGED <<client, sent, server>>

\* Mutant of ValueAt: a value that looks like an option is left for the next step.
ValueAtKept(w) ==
    /\ Scanning
    /\ argv[i] = w
    /\ i < Len(argv)
    /\ IF argv[i + 1] \in ClientOptions
         THEN argv' = [argv EXCEPT ![i] = NULL] /\ i' = i + 1
         ELSE argv' = [argv EXCEPT ![i] = NULL, ![i + 1] = NULL] /\ i' = i + 2
    /\ UNCHANGED typed

\* The word after the option is its value, whatever it looks like.
ValueAt(w) ==
    /\ Scanning
    /\ argv[i] = w
    /\ i < Len(argv)
    /\ argv' = [argv EXCEPT ![i] = NULL, ![i + 1] = NULL]
    /\ i' = i + 2
    /\ UNCHANGED typed

Host ==
    /\ ValueAt("-Chost")
    /\ option' = [option EXCEPT !.host = argv[i + 1]]
    /\ UNCHANGED <<sent, server, pc>>

Port ==
    /\ ValueAt("-Cport")
    /\ pc' = IF argv[i + 1] \in Ports THEN pc ELSE "error"
    /\ UNCHANGED <<option, sent, server>>

AuthToken ==
    /\ ValueAt("-Cauthtoken")
    /\ option' = [option EXCEPT !.authtoken = argv[i + 1]]
    /\ UNCHANGED <<sent, server, pc>>

\* Mutant of IncludeMask: room is taken for one mask more than there is.
IncludeMaskOver ==
    /\ ValueAt("-Cenv")
    /\ IF Len(option.env_include_mask) > MAX_MASK
         THEN pc' = "error" /\ UNCHANGED option
         ELSE /\ option' = [option EXCEPT !.env_include_mask = Append(@, argv[i + 1])]
              /\ UNCHANGED pc
    /\ UNCHANGED <<sent, server>>

\* set_mask_option
IncludeMask ==
    /\ ValueAt("-Cenv")
    /\ IF Len(option.env_include_mask) = MAX_MASK
         THEN pc' = "error" /\ UNCHANGED option
         ELSE /\ option' = [option EXCEPT !.env_include_mask = Append(@, argv[i + 1])]
              /\ UNCHANGED pc
    /\ UNCHANGED <<sent, server>>

ExcludeMask ==
    /\ ValueAt("-Cenv-exclude")
    /\ IF Len(option.env_exclude_mask) = MAX_MASK
         THEN pc' = "error" /\ UNCHANGED option
         ELSE /\ option' = [option EXCEPT !.env_exclude_mask = Append(@, argv[i + 1])]
              /\ UNCHANGED pc
    /\ UNCHANGED <<sent, server>>

\* An option that is unknown or misses its value.
BadOption ==
    /\ Scanning
    /\ argv[i] \in Unrecognized \/ (argv[i] \in WithValue /\ i = Len(argv))
    /\ pc' = "error"
    /\ UNCHANGED <<client, sent, server>>

\* The unavailable combinations.
CheckCombination ==
    /\ pc = "scan"
    /\ i > Len(argv)
    /\ pc' = IF \/ option.kill /\ option.restart
                \/ option.host # None /\ (option.restart \/ option.kill)
               THEN "error" ELSE "control"
    /\ UNCHANGED <<client, sent, server>>

Scan == Argument \/ Flag \/ Inform \/ Host \/ Port \/ AuthToken \/ IncludeMask \/ ExcludeMask
        \/ BadOption \/ CheckCombination

-----------------------------------------------------------------------------
(* main, send_header                                                       *)

\* kill_server ends the client, restart_server and connect_server precede the request.
Control ==
    /\ pc = "control"
    /\ pc' = IF option.kill THEN "killed" ELSE "send"
    /\ UNCHANGED <<client, sent, server>>

masks_match(masks, name) == \E k \in 1 .. Len(masks) : Includes(name, masks[k])

\* Mutant of Propagated: an inclusion overrules an exclusion.
PropagatedIfIncluded(entry) ==
    \/ masks_match(option.env_include_mask, entry.name)
    \/ option.env_all /\ ~masks_match(option.env_exclude_mask, entry.name)

\* make_env_headers
Propagated(entry) ==
    /\ option.env_all \/ masks_match(option.env_include_mask, entry.name)
    /\ ~masks_match(option.env_exclude_mask, entry.name)

\* A value of several lines is several lines of the header.
EnvLines(entry) == <<[key |-> "Env", value |-> <<entry.name, entry.value>>]>> \o entry.rest

\* The header: what the value of a variable may tear comes last.
Header(token, environment, classpath) ==
    LET words == Picked(argv, {n \in DOMAIN argv : argv[n] # NULL})
        propagated == Picked(environment,
                             {n \in DOMAIN environment : Propagated(environment[n])})
    IN  <<[key |-> "Cwd", value |-> None], [key |-> "Auth", value |-> token]>>
        \o [k \in 1 .. Len(words) |-> [key |-> "Arg", value |-> words[k]]]
        \o FlattenSeq([k \in 1 .. Len(propagated) |-> EnvLines(propagated[k])])
        \o (IF classpath # <<>> THEN <<[key |-> "Cp", value |-> classpath]>> ELSE <<>>)
        \o <<[key |-> "", value |-> None]>>

\* A token that was typed is used instead of the one in the file.
SendHeader ==
    /\ pc = "send"
    /\ environ' \in Environs
    /\ cp' \in Classpaths
    /\ wire' = Header(IF option.authtoken # None THEN option.authtoken ELSE ServerToken,
                      environ', cp')
    /\ pc' = "parse"
    /\ UNCHANGED <<client, server>>

\* read_authtoken: without the file of a server on this host nothing is sent.
NoTokenFile ==
    /\ pc = "send"
    /\ option.authtoken = None
    /\ pc' = "error"
    /\ UNCHANGED <<client, sent, server>>

-----------------------------------------------------------------------------
(* ClientProtocols.readInvocationRequest, InvocationRequest.check          *)

Trim(line) == [line EXCEPT !.padded = FALSE]

\* parseHeaders: the first empty line ends the header, what follows is left on the
\* wire; a key has the values of all its lines before that.
End(lines) == CHOOSE n \in 1 .. Len(lines) : /\ lines[n].key = ""
                                             /\ \A m \in 1 .. n - 1 : lines[m].key # ""

Values(lines, key) ==
    LET named == Picked(lines, {n \in 1 .. End(lines) - 1 : lines[n].key = key})
    IN  [k \in 1 .. Len(named) |-> named[k].value]

ReadHeaders ==
    /\ pc = "parse"
    /\ wire' = SubSeq(wire, End(wire) + 1, Len(wire))
    /\ UNCHANGED <<client, environ, cp, env, paths, args>>

\* Of a key that may have one value the first counts.
ReadInvocationRequest ==
    /\ ReadHeaders
    /\ Undecodable \notin Range(Values(wire, "Arg"))
    /\ LET first(key, otherwise) ==
             IF Values(wire, key) = <<>> THEN otherwise ELSE Values(wire, key)[1]
           envVars == Values(wire, "Env")
       IN  request' = [clientAuthToken |-> first("Auth", None),
                       args |-> Values(wire, "Arg"),
                       envVars |-> [k \in 1 .. Len(envVars) |->
                                      <<envVars[k][1], Trim(envVars[k][2])>>],
                       classpath |-> first("Cp", <<>>),
                       command |-> first("Cmd", None)]
    /\ pc' = "check"

\* decodeArgs
InvalidArgument ==
    /\ ReadHeaders
    /\ Undecodable \in Range(Values(wire, "Arg"))
    /\ pc' = "invalidHeader"
    /\ UNCHANGED request

Check ==
    /\ pc = "check"
    /\ pc' = IF request.clientAuthToken = ServerToken THEN "run" ELSE "invalidToken"
    /\ UNCHANGED <<client, sent, server>>

\* RequestWorker.run: a built-in command is no invocation.
Run ==
    /\ pc = "run"
    /\ pc' = IF request.command \in {"ping", "shutdown"} THEN "command" ELSE "setup"
    /\ UNCHANGED <<client, sent, server>>

-----------------------------------------------------------------------------
(* GroovyInvokeHandler                                                     *)

\* Of two entries of one name the later is what remains.
SetupEnvVars ==
    /\ pc = "setup"
    /\ env' = {request.envVars[k] : k \in {n \in 1 .. Len(request.envVars) :
                  \A m \in n + 1 .. Len(request.envVars) :
                     request.envVars[m][1] # request.envVars[n][1]}}
    /\ i' = 1
    /\ pc' = "classpath"
    /\ UNCHANGED <<typed, argv, option, sent, request, paths, args>>

Filtering == pc = "classpath" /\ i <= Len(request.args)

\* paths is a LinkedHashSet: each path is in it once, where it was first added.
AddPaths(set, new) ==
    set \o Picked(new, {n \in DOMAIN new : /\ new[n] \notin Range(set)
                                          /\ \A m \in 1 .. n - 1 : new[m] # new[n]})

\* Mutant of TakeClasspath: the last option wins.
TakeLastClasspath ==
    /\ Filtering
    /\ request.args[i] \in CLASSPATH_OPTIONS
    /\ i < Len(request.args)
    /\ paths' = AddPaths(<<>>, Split(request.args[i + 1]))
    /\ i' = i + 2
    /\ UNCHANGED <<typed, argv, option, sent, request, env, args, pc>>

TakeClasspath ==
    /\ Filtering
    /\ request.args[i] \in CLASSPATH_OPTIONS
    /\ i < Len(request.args)
    /\ paths' = AddPaths(paths, Split(request.args[i + 1]))
    /\ i' = i + 2
    /\ UNCHANGED <<typed, argv, option, sent, request, env, args, pc>>

InvalidClasspath ==
    /\ Filtering
    /\ request.args[i] \in CLASSPATH_OPTIONS
    /\ i = Len(request.args)
    /\ pc' = "invalidHeader"
    /\ UNCHANGED <<client, sent, server>>

KeepArgument ==
    /\ Filtering
    /\ request.args[i] \notin CLASSPATH_OPTIONS
    /\ args' = Append(args, request.args[i])
    /\ i' = i + 1
    /\ UNCHANGED <<typed, argv, option, sent, request, env, paths, pc>>

\* Without an option CLASSPATH counts; it is a list, whose entries may repeat.
InvokeGroovy ==
    /\ pc = "classpath"
    /\ i > Len(request.args)
    /\ paths' = IF paths = <<>> /\ request.classpath # <<>>
                  THEN Append(request.classpath, ".")
                  ELSE AddPaths(paths, <<".">>)
    /\ pc' = "script"
    /\ UNCHANGED <<client, sent, request, env, args>>

Invoke == SetupEnvVars \/ TakeClasspath \/ InvalidClasspath \/ KeepArgument \/ InvokeGroovy

Over == pc \in Ended /\ UNCHANGED vars

Next == Scan \/ Control \/ SendHeader \/ NoTokenFile \/ ReadInvocationRequest \/ InvalidArgument
        \/ Check \/ Run \/ Invoke \/ Over
Spec == Init /\ [][Next]_vars

-----------------------------------------------------------------------------
(* Properties                                                              *)

\* What the client keeps stays in its domain, no more masks than it has room for
\* included, and the server keeps words and variables: the type invariant.
TypeOK ==
    /\ typed \in Seq(Words) /\ argv \in Seq(Words \cup {NULL}) /\ Len(argv) = Len(typed)
    /\ i \in Nat \ {0}
    /\ option \in [host : Words \cup {None}, authtoken : Words \cup {None},
                   kill : BOOLEAN, restart : BOOLEAN, env_all : BOOLEAN,
                   env_include_mask : UNION {[1 .. n -> Words] : n \in 0 .. MAX_MASK},
                   env_exclude_mask : UNION {[1 .. n -> Words] : n \in 0 .. MAX_MASK}]
    /\ environ \in Environs \cup {<<>>} /\ cp \in Classpaths \cup {<<>>}
    /\ request.args \in Seq(Words) /\ args \in Seq(Words)
    /\ request.envVars \in Seq(STRING \X TextLine) /\ env \subseteq STRING \X TextLine
    /\ pc \in Ended \cup {"scan", "control", "send", "parse", "check", "run", "setup", "classpath"}

\* The words of a line that are values: those after an option that is not
\* itself a value.
IsValue(line, options) ==
    LET value[n \in 0 .. Len(line)] == n > 1 /\ ~value[n - 1] /\ line[n - 1] \in options
    IN  value

\* A line without some options and the values of some of them.
Without(line, options, withValue) ==
    LET value == IsValue(line, withValue)
    IN  Picked(line, {n \in DOMAIN line : ~value[n] /\ line[n] \notin options})

\* The values that a line gives to some of its options, in order.
ValuesOf(line, options, withValue) ==
    LET value == IsValue(line, withValue)
    IN  Picked(line, {n \in DOMAIN line : value[n] /\ line[n - 1] \in options})

Groovys == Without(typed, ClientOptions, WithValue)

Selected(name) ==
    LET given(o) == Range(ValuesOf(typed, {o}, WithValue))
        value == IsValue(typed, WithValue)
    IN  /\ \/ \E n \in 1 .. Len(typed) : typed[n] = "-Cenv-all" /\ ~value[n]
           \/ \E w \in given("-Cenv") : Includes(name, w)
        /\ ~\E w \in given("-Cenv-exclude") : Includes(name, w)

\* No variable that is sent has a line of such a key in its value.
Harmless(keys) ==
    \A n \in 1 .. Len(environ) : Selected(environ[n].name) =>
        \A k \in 1 .. Len(environ[n].rest) : environ[n].rest[k].key \notin keys

\* The script gets the words that were typed and belong neither to the client nor
\* to the classpath, first and in order, whatever else is in the request; and it
\* gets nothing else, unless the value of a variable has a line that is an argument's.
ArgumentsArrive ==
    pc = "script" =>
        LET own == Without(Groovys, CLASSPATH_OPTIONS, CLASSPATH_OPTIONS)
        IN  IsPrefix(own, args) /\ (Harmless({"Arg"}) => args = own)

\* The script's environment has the variables that were asked for with their
\* values, as long as these have a single line: an exclusion holds wherever
\* on the command line it is, and the later of two entries of one name counts.
EnvironmentArrives ==
    pc = "script" =>
        LET asked == {n \in 1 .. Len(environ) : Selected(environ[n].name)} IN
        (\A n \in asked : environ[n].rest = <<>>) =>
            env = {<<environ[n].name, Trim(environ[n].value)>> :
                     n \in {n \in asked : \A m \in asked : m > n => environ[m].name # environ[n].name}}

\* The classpath is that of the options, in the order of their first mention, or
\* else that of the client's CLASSPATH, and has the current directory, which is
\* last unless an option names it. It may differ only if the value of a variable has
\* a line that is an argument's, or if no option is given and it has an empty line
\* or one that is a classpath's.
ClasspathArrives ==
    pc = "script" =>
        LET words == ValuesOf(Groovys, CLASSPATH_OPTIONS, CLASSPATH_OPTIONS)
            all == FlattenSeq([k \in 1 .. Len(words) |-> Split(words[k])])
            fromOption == Range(all) # {}
        IN  Harmless({"Arg"}) /\ (fromOption \/ Harmless({"", "Cp"})) =>
               /\ Range(paths) = (IF fromOption THEN Range(all) ELSE Range(cp)) \cup {"."}
               /\ "." \in Range(all) \/ paths[Len(paths)] = "."
               /\ fromOption => \A k \in 1 .. Len(paths) : \A m \in 1 .. k - 1 :
                    /\ paths[m] # paths[k]
                    /\ paths[k] \in Range(all) =>
                         \E n \in 1 .. Len(all) : /\ all[n] = paths[m]
                                                  /\ \A o \in 1 .. n : all[o] # paths[k]
=============================================================================
