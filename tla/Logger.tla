------------------------------- MODULE Logger -------------------------------
(***************************************************************************)
(* Logger (src/src/logger.h, logger.cc): one object for all threads, which *)
(* the macros LOG_INFO, LOG_ERROR, LOG_DEBUG and LOG_FATAL use.  A macro   *)
(* sets the level of the object, and then has it write: the label of the   *)
(* level is one insertion into std::cout, what follows are others.         *)
(*                                                                         *)
(* The text and the date are left out: a line is its label.                *)
(***************************************************************************)
CONSTANT Threads     \* those that log

logger_level == {"INFO", "ERROR", "DEBUG", "FATAL"}

VARIABLES
  log_level_,   \* of the object; static storage, hence INFO at first
  threadPc,     \* where a thread is in its macro
  level,        \* the level that the macro is for
  label,        \* what it has printed of it
  exited        \* exit() has been called

vars == <<log_level_, threadPc, level, label, exited>>

TypeOK ==
  /\ log_level_ \in logger_level
  /\ threadPc \in [Threads -> {"idle", "writing", "labelled", "written"}]
  /\ level \in [Threads -> logger_level]
  /\ label \in [Threads -> logger_level]
  /\ exited \in BOOLEAN

Init ==
  /\ log_level_ = "INFO"
  /\ threadPc = [t \in Threads |-> "idle"]
  /\ level = [t \in Threads |-> "INFO"]
  /\ label = [t \in Threads |-> "INFO"]
  /\ exited = FALSE

\* get_instance() and set_level(l).
SetLevel(t, l) ==
  /\ threadPc[t] = "idle"
  /\ log_level_' = l
  /\ level' = [level EXCEPT ![t] = l]
  /\ threadPc' = [threadPc EXCEPT ![t] = "writing"]
  /\ UNCHANGED <<label, exited>>

\* output_for_terminal: the switch on log_level_, which prints the label ...
WriteLabel(t) ==
  /\ threadPc[t] = "writing"
  /\ label' = [label EXCEPT ![t] = log_level_]
  /\ threadPc' = [threadPc EXCEPT ![t] = "labelled"]
  /\ UNCHANGED <<log_level_, level, exited>>

\* ... and the date, the text and the end of the line.
WriteText(t) ==
  /\ threadPc[t] = "labelled"
  /\ threadPc' = [threadPc EXCEPT ![t] = IF level[t] = "FATAL" THEN "written"
                                                               ELSE "idle"]
  /\ UNCHANGED <<log_level_, level, label, exited>>

\* exit(-1), the end of LOG_FATAL.
Exit(t) ==
  /\ threadPc[t] = "written"
  /\ exited' = TRUE
  /\ UNCHANGED <<log_level_, threadPc, level, label>>

Next ==
  \/ /\ ~exited
     /\ \E t \in Threads :
          \/ \E l \in logger_level : SetLevel(t, l)
          \/ WriteLabel(t) \/ WriteText(t) \/ Exit(t)
  \/ exited /\ UNCHANGED vars

Spec == Init /\ [][Next]_vars

-----------------------------------------------------------------------------
\* A line carries the level of the macro that wrote it (logger.h:77-81: the
\* text is written with its date and its level).
LabelIsOwn == \A t \in Threads : threadPc[t] = "labelled" => label[t] = level[t]
=============================================================================
