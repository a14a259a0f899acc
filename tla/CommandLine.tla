------------------------------ MODULE CommandLine ------------------------------
(***************************************************************************)
(* The constructors of config_info (client_config.cpp) and server_config   *)
(* (server_config.cpp), which read the command line of the client and of   *)
(* the server, and set_library_path (os/linux/libpath.cpp), which finds a  *)
(* plug-in by its name.                                                    *)
(*                                                                         *)
(* An argument is a string; the tables NumberOf, Spelling and Dashed say   *)
(* what the code reads out of its characters.                              *)
(***************************************************************************)
EXTENDS Integers, Sequences, FiniteSetsExt

CONSTANTS
  Lines,      \* for each program, the command lines to look at
  Dashed,     \* the arguments that start with - or /
  Spelling,   \* other spellings of an option: both parsers look at one to
              \* three of its letters only
  Misspelt,   \* arguments with the first letter of a client's option that are none
  NumberOf,   \* what atol returns, where that is not 0
  IntRange,   \* 2^32: an int keeps atol's result modulo this
  Installed,  \* <<kind, name>> of the plug-ins in the default directories
  InLibDir    \* <<directory, kind, name>> of those elsewhere

ASSUME CommandLineAssumption ==
  /\ DOMAIN Lines \subseteq {"client", "server"}
  /\ \A p \in DOMAIN Lines : Lines[p] \subseteq Seq(STRING)
  /\ IntRange \in Nat \ {0, 1}
  /\ \A a \in DOMAIN NumberOf : NumberOf[a] \in Int
  /\ \A a \in DOMAIN Spelling : a \in Dashed

VARIABLES
  program,  \* which of the two it is
  argv,     \* its arguments, without argv[0]
  cnt,      \* the argument the loop looks at
  at,       \* the positions of the names and of the library directory; 0 if none
  number,   \* the numeric fields of the client
  address,  \* protocol_dest_address
  entries,  \* param_pos: where the server's protocols are
  outcome

parserVars == <<program, argv, cnt, at, number, address, entries, outcome>>

-----------------------------------------------------------------------------
\* The options of help(), by the field they set.
PositionOptions ==
  IF program = "client" THEN {"-dn", "-cn", "-pn", "-L"} ELSE {"-rn", "-sn", "-L"}
NumberOptions ==
  IF program = "client"
  THEN {"-n", "-dp", "-cmin", "-cmax", "-cinc", "-ctim", "-pmin", "-pmax", "-pinc", "-ptim"}
  ELSE {}
AddressOptions == IF program = "client" THEN {"-da"} ELSE {}
Options == PositionOptions \cup NumberOptions \cup AddressOptions

Option(arg) == IF arg \in DOMAIN Spelling THEN Spelling[arg] ELSE arg

Atol(arg) == IF arg \in DOMAIN NumberOf THEN NumberOf[arg] ELSE 0

\* A long stored in an int, and in an unsigned.
ToInt(n) == LET m == n % IntRange IN IF 2 * m >= IntRange THEN m - IntRange ELSE m
ToUnsigned(n) == n % IntRange

Errors == {"too few", "no dash", "unknown", "no value", "no port", "names", "clients",
           "protocol", "client", "payload", "port", "address",
           "entries", "server name", "server", "reply name", "reply"}

ParserTypeOK ==
  /\ program \in {"client", "server"} /\ argv \in Seq(STRING)
  /\ cnt \in 1..(Len(argv) + 1)
  /\ at \in [PositionOptions -> 0..Len(argv)]
  /\ number \in [NumberOptions -> Int]
  /\ address \in 0..Len(argv)
  /\ entries \in Seq(1..Len(argv))
  /\ outcome \in {"start", "reading", "ok", "version"} \cup Errors

ParserInit ==
  /\ program \in DOMAIN Lines /\ argv \in Lines[program]
  /\ cnt = 1
  /\ at = [o \in PositionOptions |-> 0]
  /\ number = [o \in NumberOptions |-> IF o = "-n" THEN 1 ELSE 0]
  /\ address = 0 /\ entries = <<>>
  /\ outcome = "start"

Ends(result) == outcome' = result /\ UNCHANGED <<program, argv, cnt, at, number, address, entries>>

-----------------------------------------------------------------------------
(***************************************************************************)
(* The loop over the arguments                                             *)
(***************************************************************************)
Fewest == IF program = "client" THEN 2 ELSE 5

\* Too short a line is refused at once, unless it is empty or starts with
\* just this spelling of -v.
Starts ==
  /\ outcome = "start"
  /\ Ends(IF Len(argv) \in 1..(Fewest - 1) /\ argv[1] # "-v" THEN "too few" ELSE "reading")

Reading == outcome = "reading" /\ cnt <= Len(argv)
Here == Option(argv[cnt])
HasValue == cnt < Len(argv)

Takes ==
  /\ cnt' = cnt + 2
  /\ UNCHANGED <<program, argv, outcome>>

\* -dn, -cn, -pn, -rn, -sn, -L: the place of the value is remembered.
TakesPosition ==
  /\ Reading /\ argv[cnt] \in Dashed /\ Here \in PositionOptions /\ HasValue
  /\ at' = [at EXCEPT ![Here] = cnt + 1]
  /\ Takes /\ UNCHANGED <<number, address, entries>>

\* Mutant of TakesNumber: the first of two options wins.
TakesFirstNumber ==
  /\ Reading /\ argv[cnt] \in Dashed /\ Here \in NumberOptions /\ HasValue
  /\ number' = [number EXCEPT ![Here] =
                  IF number[Here] \in {0, 1} THEN ToInt(Atol(argv[cnt + 1])) ELSE number[Here]]
  /\ Takes /\ UNCHANGED <<at, address, entries>>

TakesNumber ==
  /\ Reading /\ argv[cnt] \in Dashed /\ Here \in NumberOptions /\ HasValue
  /\ number' = [number EXCEPT ![Here] = ToInt(Atol(argv[cnt + 1]))]
  /\ Takes /\ UNCHANGED <<at, address, entries>>

\* The address is copied; here it is remembered by its place.
TakesAddress ==
  /\ Reading /\ argv[cnt] \in Dashed /\ Here \in AddressOptions /\ HasValue
  /\ address' = cnt + 1
  /\ Takes /\ UNCHANGED <<at, number, entries>>

IsPort(arg) == arg \notin Dashed /\ Atol(arg) # 0

\* The server's "protocol port" pairs, of which the help says "the name of
\* the protocol followed by the port".
TakesEntry ==
  /\ program = "server" /\ Reading /\ argv[cnt] \notin Dashed
  /\ HasValue /\ IsPort(argv[cnt + 1])
  /\ entries' = Append(entries, cnt)
  /\ Takes /\ UNCHANGED <<at, number, address>>

RefusesEntry ==
  /\ program = "server" /\ Reading /\ argv[cnt] \notin Dashed
  /\ ~(HasValue /\ IsPort(argv[cnt + 1]))
  /\ Ends("no port")

RefusesWord ==
  /\ program = "client" /\ Reading /\ argv[cnt] \notin Dashed
  /\ Ends("no dash")

\* -v, wherever an option may be.
TakesVersion ==
  /\ Reading /\ argv[cnt] \in Dashed /\ Here = "-v"
  /\ Ends("version")

\* An option at the end of the line.
RefusesNoValue ==
  /\ Reading /\ argv[cnt] \in Dashed /\ Here \in Options /\ ~HasValue
  /\ Ends("no value")

\* What starts as a client's option does is tested for its value first.
RefusesUnknown ==
  /\ Reading /\ argv[cnt] \in Dashed /\ Here \notin Options \cup {"-v"}
  /\ Ends(IF argv[cnt] \in Misspelt /\ ~HasValue THEN "no value" ELSE "unknown")

-----------------------------------------------------------------------------
(***************************************************************************)
(* The checks after it                                                     *)
(***************************************************************************)
\* set_library_path: the directory given with -L, then the default ones.
FoundIn(kind, name) ==
  IF at["-L"] # 0 /\ <<argv[at["-L"]], kind, name>> \in InLibDir THEN {argv[at["-L"]]}
  ELSE IF <<kind, name>> \in Installed THEN {"default"} ELSE {}

Finds(kind, option) == at[option] # 0 /\ FoundIn(kind, argv[at[option]]) # {}

Check(holds, error) == [holds |-> holds, error |-> error]

\* Mutant of ClientChecks: -pn may be missing.
ClientChecksNoPayload ==
  << Check(at["-dn"] # 0 /\ at["-cn"] # 0, "names"),
     Check(number["-n"] >= 1, "clients"),
     Check(Finds("protocol", "-dn"), "protocol"),
     Check(Finds("client", "-cn"), "client"),
     Check(number["-dp"] > 0, "port"),
     Check(address # 0, "address") >>

ClientChecks ==
  << Check(at["-dn"] # 0 /\ at["-cn"] # 0 /\ at["-pn"] # 0, "names"),
     Check(number["-n"] >= 1, "clients"),
     Check(Finds("protocol", "-dn"), "protocol"),
     Check(Finds("client", "-cn"), "client"),
     Check(Finds("payload", "-pn"), "payload"),
     Check(number["-dp"] > 0, "port"),
     Check(address # 0, "address") >>

\* Nothing is said of the entries' plug-ins: the test at server_config.cpp:111
\* looks at the array, which is never NULL, and not at the name.
ServerChecks ==
  << Check(entries # <<>>, "entries"),
     Check(at["-sn"] # 0, "server name"),
     Check(Finds("server", "-sn"), "server"),
     Check(at["-rn"] # 0, "reply name"),
     Check(Finds("reply", "-rn"), "reply") >>

\* The first check that does not hold ends the constructor.
Concludes ==
  /\ outcome = "reading" /\ cnt > Len(argv)
  /\ LET checks == IF program = "client" THEN ClientChecks ELSE ServerChecks
         bad == {i \in DOMAIN checks : ~checks[i].holds}
     IN  Ends(IF bad = {} THEN "ok" ELSE checks[Min(bad)].error)

\* getProtocolLibraryPath and getProtocolLocalPort of the server; {} is NULL.
EntryLibrary(i) == FoundIn("protocol", argv[entries[i]])
EntryPort(i) == ToUnsigned(Atol(argv[entries[i] + 1]))

ParserNext ==
  \/ Starts
  \/ TakesPosition \/ TakesNumber \/ TakesAddress \/ TakesEntry \/ TakesVersion
  \/ RefusesEntry \/ RefusesWord \/ RefusesNoValue \/ RefusesUnknown
  \/ Concludes

ParserSpec == ParserInit /\ [][ParserNext]_parserVars /\ WF_parserVars(ParserNext)

-----------------------------------------------------------------------------
(***************************************************************************)
(* Properties                                                              *)
(***************************************************************************)
\* Read as pairs: the places where an option or a protocol stands, and the
\* place of the value that counts, which is that of the last such option.
Keys == {i \in 1..Len(argv) : i % 2 = 1}
Uses(o) == {i \in Keys : argv[i] \in Dashed /\ Option(argv[i]) = o}
Given(o) == IF Uses(o) = {} THEN 0 ELSE Max(Uses(o)) + 1

IsPair(i) ==
  /\ i < Len(argv)
  /\ IF argv[i] \in Dashed THEN Option(argv[i]) \in Options
     ELSE program = "server" /\ IsPort(argv[i + 1])

Plugin(kind, o) ==
  /\ Given(o) # 0
  /\ \/ <<kind, argv[Given(o)]>> \in Installed
     \/ Given("-L") # 0 /\ <<argv[Given("-L")], kind, argv[Given(o)]>> \in InLibDir

Positive(o) == Given(o) # 0 /\ ToInt(Atol(argv[Given(o)])) > 0

Complete ==
  IF program = "client"
  THEN /\ Plugin("protocol", "-dn") /\ Plugin("client", "-cn") /\ Plugin("payload", "-pn")
       /\ Given("-n") # 0 => Positive("-n")
       /\ Positive("-dp") /\ Given("-da") # 0
  ELSE /\ Len(argv) >= 5
       /\ Plugin("server", "-sn") /\ Plugin("reply", "-rn")
       /\ \E i \in Keys : argv[i] \notin Dashed

\* The program goes on exactly when its line is a list of known options with
\* their values, as help() describes it, and has all it needs: an option that
\* is misspelt, repeated or without its value is never taken for another.
AcceptsExactly ==
  outcome \notin {"start", "reading"} =>
    (outcome = "ok" <=> (\A i \in Keys : IsPair(i)) /\ Complete)

\* What the program works with is what the line says: the last of several
\* equal options counts, one that is not given leaves the default, and the
\* server has one entry for each of its pairs, in their order.
OptionsAsGiven ==
  outcome = "ok" =>
    /\ \A o \in PositionOptions : at[o] = Given(o)
    /\ \A o \in NumberOptions :
         number[o] = IF Given(o) # 0 THEN ToInt(Atol(argv[Given(o)]))
                     ELSE IF o = "-n" THEN 1 ELSE 0
    /\ program = "client" => address = Given("-da")
    /\ {entries[i] : i \in DOMAIN entries} = {i \in Keys : argv[i] \notin Dashed}
    /\ \A i, j \in DOMAIN entries : i < j => entries[i] < entries[j]
=============================================================================
