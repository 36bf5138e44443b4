----------------------------- MODULE MCMachine ------------------------------
(***************************************************************************)
(* The components that only share processes with each other, on small      *)
(* instances, for TLC. One run checks them all: a behaviour is one of one  *)
(* of them, and the variables of the others keep their first values.       *)
(***************************************************************************)
EXTENDS Wifi, Cec, HardwareSettings, SerialOrder, RemoteInterface, ScreenReader,
        LoginSwitch, UserInterfaces, PerformanceProfile, Lifecycle, InputPlumber,
        WifiDump, UdevEvents

CONSTANTS fan, boost, tdp, anna
ConfiguredIfaces == <<boost, fan, tdp>>
\* At most two things are wrong at once.
OddMachines ==
    {m \in {{}} \cup {{t, u} : t, u \in Trouble} : \A t, u \in m : t[1] = u[1] => t = u}
MachinePolicies == <<"policy1", "policy0", "policy2">>

VARIABLE component

\* The screen reader starts in the game mode, enabled or not and with a file or
\* without, or it starts with one of these and waits for the mode.
ReaderStarts ==
    LET oneStart == conf = "good" /\ ~settings.speech /\ gsetting /\ orca
    IN  /\ conf = "missing" => ~settings.speech
        /\ unit = "active" => ~unitNotified /\ orca = gsetting
        /\ unit = "inactive" => oneStart
        /\ component # "reader" => oneStart /\ unit = "active"

MachineInit ==
    /\ component \in {"wifi", "cec", "cecd", "hardware", "serial", "remote", "reader",
                     "login", "interfaces", "profile", "life", "plumber", "dump", "udev"}
    /\ address = 1           \* (the addresses are alike)
    \* (the setter and CecdService of Cec share nothing but its bound on failures)
    /\ component # "cec" => cecd = TRUE /\ fragment = Fragment("disabled")
    /\ component # "cecd" => ecAddress = 1
    /\ component # "hardware" => driver = "tdp_alib" /\ found = TRUE /\ tdpActive = TRUE
    /\ component # "remote" => remoteUp = FALSE
    /\ component # "login" => default = 1
    /\ component # "interfaces" => odd = {}
    /\ component # "profile" => tdpManager = TRUE /\ profile = 1
    /\ component # "life" => wantsInhibitor = FALSE
    /\ component # "plumber" => wanted = "deck" /\ present = {}
    /\ component # "dump" => submitter = FALSE
    /\ WifiInit /\ CecInit /\ HardwareInit /\ SerialInit /\ RemoteInit
    /\ ReaderInit /\ ReaderStarts
    /\ LoginInit /\ ProfileInit /\ LifeInit /\ DeckInit /\ DumpInit /\ InterfacesInit
    /\ UdevInit

\* The variables of one component may change.
Only(name) ==
    /\ component = name
    /\ UNCHANGED component
    /\ name # "wifi" => UNCHANGED wifiVars
    /\ name \notin {"cec", "cecd"} => UNCHANGED cecVars
    /\ name = "cec" => UNCHANGED listenerVars
    /\ name = "cecd" => UNCHANGED cecCalls
    /\ name # "hardware" => UNCHANGED hardwareVars
    /\ name # "serial" => UNCHANGED serialVars
    /\ name # "remote" => UNCHANGED remoteVars
    /\ name # "reader" => UNCHANGED readerVars
    /\ name # "login" => UNCHANGED loginAll
    /\ name # "interfaces" => UNCHANGED interfacesVars
    /\ name # "profile" => UNCHANGED profileVars
    /\ name # "life" => UNCHANGED lifeVars
    /\ name # "plumber" => UNCHANGED deckVars
    /\ name # "dump" => UNCHANGED dumpVars
    /\ name # "udev" => UNCHANGED udevVars

MachineNext ==
    \/ Only("wifi") /\ WifiNext
    \/ (Only("cec") \/ Only("cecd")) /\ CecNext
    \/ Only("hardware") /\ HardwareNext
    \/ Only("serial") /\ SerialNext
    \/ Only("remote") /\ RemoteNext
    \/ Only("reader") /\ ReaderNext
    \/ Only("login") /\ LoginNext
    \/ Only("interfaces") /\ InterfacesNext
    \/ Only("profile") /\ ProfileNext
    \/ Only("life") /\ LifeNext
    \/ Only("plumber") /\ DeckNext
    \/ Only("dump") /\ DumpNext
    \/ Only("udev") /\ UdevNext

machineVars ==
    <<component, wifiVars, cecVars, hardwareVars, serialVars, remoteVars, readerVars,
      loginAll, interfacesVars, profileVars, lifeVars, deckVars, dumpVars, udevVars>>

MachineSpec == MachineInit /\ [][MachineNext]_machineVars
=============================================================================
