\* Any four words: a client option may be the value of a classpath option and the
\* other way round. Masks overflow with the second.
CONSTANTS
    Words = {"-Chost", "-Cauthtoken", "-Cenv", "-Cenv-exclude", "-Cenv-all", "-Ckill-server", "-Crestart-server", "-Cport", "-Chelp", "-Cx", "-cp", "lib", "lib:.", "token"}
    MaxArgs = 4
    MAX_MASK = 1
    Unrecognized = {"-Cx"}
    Ports = {"token"}
    Split <- MCSplit
    Includes <- MCIncludes
    Environs <- MCEnvirons
    Classpaths <- MCClasspaths
    ServerToken = "token"
SPECIFICATION Spec
INVARIANTS TypeOK ArgumentsArrive EnvironmentArrives ClasspathArrives
