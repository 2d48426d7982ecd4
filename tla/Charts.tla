-------------------------------- MODULE Charts --------------------------------
(***************************************************************************)
(* What the monitor page draws: for each topic the fields of a sample and  *)
(* where MonitiorTask takes them from, and the charts of static/js with    *)
(* the field behind each line.  A value is known by the column of the tool *)
(* it comes from and by its unit; a sample by the minute of its date.      *)
(*                                                                         *)
(* Definitions marked "deviation" are faulty variants of the definition    *)
(* after them.                                                             *)
(***************************************************************************)
EXTENDS Naturals, Sequences

Topics == {"gc", "cl", "thread"}

-----------------------------------------------------------------------------
(* The tools (external): the columns they print, with the unit of each. *)

value(column, unit) == [column |-> column, unit |-> unit]

\* jstat -gc
GcColumns == <<value("S0C", "KB"), value("S1C", "KB"), value("S0U", "KB"), value("S1U", "KB"),
               value("EC", "KB"), value("EU", "KB"), value("OC", "KB"), value("OU", "KB"),
               value("MC", "KB"), value("MU", "KB"), value("CCSC", "KB"), value("CCSU", "KB"),
               value("YGC", "number"), value("YGCT", "s"), value("FGC", "number"),
               value("FGCT", "s"), value("GCT", "s")>>

\* jstat -class, then the first four columns of jstat -compiler
ClassColumns == <<value("Loaded", "number"), value("LoadedBytes", "KB"),
                  value("Unloaded", "number"), value("UnloadedBytes", "KB"),
                  value("LoadTime", "s"),
                  value("Compiled", "number"), value("Failed", "number"),
                  value("Invalid", "number"), value("CompileTime", "s")>>

-----------------------------------------------------------------------------
(* The samples, with the names their getters have in JSON. *)

\* ByteConvKbUtils.getMB
getMB(v) == value(v.column, IF v.unit = "KB" THEN "MB" ELSE "none")

\* (deviation: the columns taken in the order capacity, use of each space)
pullGcByPairs ==
    LET c(i) == GcColumns[i] IN
    [s0C |-> getMB(c(1)), s0U |-> getMB(c(2)), s1C |-> getMB(c(3)), s1U |-> getMB(c(4)),
     ec |-> getMB(c(5)), eu |-> getMB(c(6)), oc |-> getMB(c(7)), ou |-> getMB(c(8)),
     mc |-> getMB(c(9)), mu |-> getMB(c(10)), ccsc |-> getMB(c(11)), ccsu |-> getMB(c(12)),
     ygc |-> c(13), ygct |-> c(14), fgc |-> c(15), fgct |-> c(16), gct |-> c(17)]

pullGc ==
    LET c(i) == GcColumns[i] IN
    [s0C |-> getMB(c(1)), s1C |-> getMB(c(2)), s0U |-> getMB(c(3)), s1U |-> getMB(c(4)),
     ec |-> getMB(c(5)), eu |-> getMB(c(6)), oc |-> getMB(c(7)), ou |-> getMB(c(8)),
     mc |-> getMB(c(9)), mu |-> getMB(c(10)), ccsc |-> getMB(c(11)), ccsu |-> getMB(c(12)),
     ygc |-> c(13), ygct |-> c(14), fgc |-> c(15), fgct |-> c(16), gct |-> c(17)]

pullClassload ==
    LET c(i) == ClassColumns[i] IN
    [loaded |-> c(1), bytes1 |-> getMB(c(2)), unloaded |-> c(3), bytes2 |-> getMB(c(4)),
     time1 |-> c(5), compiled |-> c(6), failed |-> c(7), invalid |-> c(8), time2 |-> c(9)]

\* Jstack counts the threads of each state in the output of jstack.
pullThread ==
    [total |-> value("nid", "number"), runnable |-> value("RUNNABLE", "number"),
     timed_WAITING |-> value("TIMED_WAITING", "number"), waiting |-> value("WAITING", "number")]

sample(topic) == CASE topic = "gc" -> pullGc
                   [] topic = "cl" -> pullClassload
                   [] topic = "thread" -> pullThread

-----------------------------------------------------------------------------
(* The charts: the unit in the title and, for each line, the field it plots. *)

chart(unit, lines) == [unit |-> unit, lines |-> lines]

s0 == chart("MB", [SOC |-> "s0C", SOU |-> "s0U"])
s1 == chart("MB", [S1C |-> "s1C", S1U |-> "s1U"])
eden == chart("MB", [EC |-> "ec", EU |-> "eu"])
old == chart("MB", [OC |-> "oc", OU |-> "ou"])
mc == chart("MB", [MC |-> "mc", MU |-> "mu"])
ccsc == chart("MB", [CCSC |-> "ccsc", CCSU |-> "ccsu"])
gcn == chart("number", [YGC |-> "ygc", FGC |-> "fgc"])
gct == chart("s", [YGCT |-> "ygct", FGCT |-> "fgct", GCT |-> "gct"])
classn == chart("number", [Loaded |-> "loaded", UnLoaded |-> "unloaded"])
classt == chart("s", [Time |-> "time1"])
comn == chart("number", [Compiled |-> "compiled", Failed |-> "failed", Invalid |-> "invalid"])
comt == chart("s", [Time |-> "time2"])
combyte == chart("MB", [Loaded |-> "bytes1", Unloaded |-> "bytes2"])
threadData == chart("number", [Total |-> "total", Waiting |-> "waiting",
                               Runnable |-> "runnable", Sleeping |-> "timed_WAITING"])

\* The charts a topic's answer is drawn in, in the order of the calls.
charts(topic) ==
    CASE topic = "gc" -> [s0 |-> s0, s1 |-> s1, eden |-> eden, old |-> old,
                          mc |-> mc, ccsc |-> ccsc, gcn |-> gcn, gct |-> gct]
      [] topic = "cl" -> [classn |-> classn, classt |-> classt, comn |-> comn,
                          comt |-> comt, combyte |-> combyte]
      [] topic = "thread" -> [thread |-> threadData]
=============================================================================
