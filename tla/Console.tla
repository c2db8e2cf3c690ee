-------------------------------- MODULE Console --------------------------------
(***************************************************************************)
(* The console side of the program: log streams, the listener set, the     *)
(* audit log and the settings.  The four share no state in the code        *)
(* either, so whatever one of them can do it can do while the others stand *)
(* still: a behaviour follows one of them, chosen at the start.            *)
(***************************************************************************)
EXTENDS LogStream, WebServer, AuditLog, Settings

VARIABLE part  \* the one this behaviour follows

consoleVars == <<part, logVars, webVars, auditVars, setVars>>

ConsoleInit ==
    /\ part \in {"log", "web", "audit", "settings"}
    /\ IF part = "log" THEN LogInit ELSE LogStart(CHOOSE load \in Loads : TRUE)
    /\ IF part = "settings" THEN SetInit ELSE SetStart(CHOOSE cfg \in Shipped : TRUE)
    /\ WebInit
    /\ AuditInit

ConsoleNext ==
    /\ \/ part = "log" /\ LogNext /\ UNCHANGED <<webVars, auditVars, setVars>>
       \/ part = "web" /\ WebNext /\ UNCHANGED <<logVars, auditVars, setVars>>
       \/ part = "audit" /\ AuditNext /\ UNCHANGED <<logVars, webVars, setVars>>
       \/ part = "settings" /\ SetNext /\ UNCHANGED <<logVars, webVars, auditVars>>
    /\ UNCHANGED part

ConsoleSpec ==
    /\ ConsoleInit
    /\ [][ConsoleNext]_consoleVars
    /\ WF_webVars(part = "web" /\ WebProgram)
=============================================================================
