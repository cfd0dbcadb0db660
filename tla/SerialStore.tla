----------------------------- MODULE SerialStore -----------------------------
(***************************************************************************)
(* The module store with one terminal, at which a command is typed when the *)
(* one before has ended and so have the tools it started, implements the    *)
(* catalogue of AppCatalog, whatever debris killed and interrupted commands *)
(* leave behind.  That a user waits for the tools of a command that was     *)
(* killed is an assumption: the prompt comes back before they end, and they *)
(* go on under the next command, which they can make untrue.                *)
(***************************************************************************)
EXTENDS ModuleStoreProps

VARIABLE last   \* the catalogue as the last command that returned left it

serialVars == <<vars, last>>

ASSUME OneTerminal == \E p \in Procs : Procs = {p}

Shell == CHOOSE p \in Procs : TRUE

\* The catalogue that is in the store.
InStore ==
    [apps    |-> [m \in Modules |-> [a \in Apps |-> apk[<<"upper", m, a>>]]],
     mounted |-> [m \in Modules |-> apk[<<"priv", m, m>>]],
     found   |-> upperSys,
     state   |-> [m \in Modules |->
                    IF ~Installed(m) THEN "none"
                    ELSE IF \A f \in FileNames : files[<<m, f>>] = "written"
                         THEN "complete" ELSE "incomplete"],
     code    |-> out[Shell]]

SerialInit == Init /\ last = InStore

\* Steps of a command that runs are not seen until it returns, or, if it was
\* killed, until its shell has ended.
SerialNext ==
    /\ Next
    /\ last' = IF pc'[Shell] = "idle" THEN InStore' ELSE [last EXCEPT !.code = "none"]

SerialSpec == SerialInit /\ [][SerialNext]_serialVars

Catalogue == INSTANCE AppCatalog WITH
    apps <- last.apps, mounted <- last.mounted, found <- last.found,
    state <- last.state, code <- last.code

\* A user who runs one command at a time sees each as one step: with exit code
\* 0 it has done all it reports, refused it has done nothing, and killed or
\* stopped by Ctrl-C it has damaged at most the application or module it was
\* given, and later commands cope with that (install, uninstall, overlayfs).
ImplementsCatalogue == Catalogue!Spec
=============================================================================
