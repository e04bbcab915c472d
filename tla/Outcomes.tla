------------------------------ MODULE Outcomes ------------------------------
(***************************************************************************)
(* How loading a contract file, a verification and a process can end       *)
(* (datagate/contract.py, datagate/report.py).                             *)
(***************************************************************************)
EXTENDS Naturals

\* What load_contract and Contract.from_mapping find at a path.  YAMLError and
\* a wrong shape become a ContractError, hence an ERROR report; OSError from
\* open(), UnicodeDecodeError from reading and ValueError from int() are caught
\* nowhere.
Rejected == {"bad_yaml", "bad_shape"}
Uncaught == {"absent", "unreadable", "not_utf8", "bad_number"}

FileKinds == {"contract"} \cup Rejected \cup Uncaught

\* report.Status
Statuses == {"pass", "fail", "error"}

\* Mutant: ERROR has an exit code no pipeline knows.
ExitCodeUnknown(s) == CASE s = "pass" -> 0 [] s = "fail" -> 1 [] s = "error" -> 3

\* Status.exit_code
ExitCode(s) == CASE s = "pass" -> 0 [] s = "fail" -> 1 [] s = "error" -> 2

Traceback == 1      \* Python's exit code after an uncaught exception
Signal    == 137    \* the shell's, after SIGKILL
=============================================================================
