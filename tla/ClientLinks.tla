---------------------------- MODULE ClientLinks ----------------------------
(***************************************************************************)
(* The VLAN subinterfaces of a client container, and the scripts that      *)
(* configure_vlans.py, measure_setup_rate.py and vmotion.py have a shell   *)
(* run there.                                                              *)
(*                                                                         *)
(* A script concerns one client, and those of different clients share      *)
(* nothing: one client is modelled.  The tools run one after another on it *)
(* and none looks at what an earlier one has left.  A script can break off *)
(* anywhere; when its tool is killed it may also run on, and the next tool *)
(* is taken to start when it has ended.                                    *)
(***************************************************************************)
EXTENDS Integers, FiniteSets, SequencesExt

CONSTANTS Vlan,      \* VLANs the tools are asked for
          MaxRuns    \* bound: runs of a tool on the client

ASSUME LinksAssumption == Vlan \subseteq 1..4094 /\ MaxRuns \in Nat

VARIABLES
  links,     \* per VLAN: what its subinterface has, {} if there is none: "link",
             \* "mac" (the client's own of that VLAN) or "vmmac" (that of a virtual
             \* machine), "up", "address", "quiet" (no IPv6)
  script,    \* lines the shell has still to carry out
  job,       \* the run of a tool
  last,      \* the run before it
  runs       \* runs so far

vars == <<links, script, job, last, runs>>

Tools == {"setup", "cleanup", "trigger", "arrive", "leave"}

\* A run: `cold' if none of its VLANs had a subinterface when it began, `bare'
\* if no VLAN at all had one; `silent' are those of its VLANs that had one with
\* IPv6 switched off, on which the client sends nothing of its own.  It is "done" when the tool says so, "failed" when
\* the connection broke, "killed" when the tool was.
Nothing == [tool |-> "leave", range |-> {}, cold |-> TRUE, bare |-> TRUE, silent |-> {},
            end |-> "done"]

Init ==
  /\ links = [v \in Vlan |-> {}]
  /\ script = <<>>
  /\ job = Nothing /\ last = Nothing
  /\ runs = 0
-----------------------------------------------------------------------------
(* The scripts.  A line is <<what it does, its VLAN, its batch>>: "alone"  *)
(* if a failure of it is not looked at, as with "|| true" or -force.       *)

Sorted(range) == CHOOSE s \in SetToSeqs(range) : IsSorted(s, <)

\* A line does what `does' says, one per VLAN and in their order.
Lines(range, does, batch) ==
  LET sorted == Sorted(range)
      width  == Len(does)
  IN  [n \in 1 .. width * Len(sorted) |->
        <<does[((n - 1) % width) + 1], sorted[((n - 1) \div width) + 1], batch>>]

MutSetup(range) ==
  Lines(range, <<"add", "mac", "up", "quiet">>, "links") \o Lines(range, <<"address">>, "addresses")

\* setup_client: two batches, then the loop that disables IPv6.
Setup(range) ==
  Lines(range, <<"add", "mac", "up">>, "links")
  \o Lines(range, <<"address">>, "addresses")
  \o Lines(range, <<"quiet">>, "alone")

MutCleanup(range) == Reverse(Lines(range, <<"delete">>, "deletes"))

\* cleanup_client.
Cleanup(range) == Lines(range, <<"delete">>, "deletes")

MutTrigger(range) ==
  Lines(range, <<"add", "mac", "up">>, "links") \o Lines(range, <<"address">>, "addresses")

\* build_trigger_script, with -force: no batch ends early.  IPv6 is left on.
Trigger(range) ==
  Lines(range, <<"add", "mac", "up">>, "alone") \o Lines(range, <<"address">>, "alone")

\* create_subif of vmotion.py, for one VLAN after the other.
Arrive(range) == Lines(range, <<"add", "quiet", "vmmac", "up", "address">>, "alone")

\* How measure_setup_rate.py and vmotion.py delete: each link for itself.
Leave(range) == Lines(range, <<"delete">>, "alone")

Script(tool, range) ==
  CASE tool = "setup"   -> Setup(range)
    [] tool = "cleanup" -> Cleanup(range)
    [] tool = "trigger" -> Trigger(range)
    [] tool = "arrive"  -> Arrive(range)
    [] tool = "leave"   -> Leave(range)
-----------------------------------------------------------------------------
(* The shell.                                                              *)

\* ip refuses to add what exists and to touch what does not.
Fails(line) ==
  CASE line[1] = "add"     -> links[line[2]] # {}
    [] line[1] = "address" -> links[line[2]] = {} \/ "address" \in links[line[2]]
    [] OTHER               -> links[line[2]] = {}

\* A subinterface with what a line gives it.
With(link, does) ==
  CASE does = "add"    -> {"link"}
    [] does = "delete" -> {}
    [] does = "mac"    -> (link \ {"vmmac"}) \cup {"mac"}
    [] does = "vmmac"  -> (link \ {"mac"}) \cup {"vmmac"}
    [] OTHER           -> link \cup {does}

\* ip -batch ends at the first line that fails; the shell goes on after it.
Skip(line) ==
  IF line[3] = "alone" THEN Tail(script)
  ELSE LET after == {n \in 1..Len(script) : script[n][3] # line[3]}
       IN  IF after = {} THEN <<>> ELSE SubSeq(script, Min(after), Len(script))

Step ==
  /\ script # <<>>
  /\ LET line == Head(script)
     IN  IF Fails(line)
         THEN script' = Skip(line) /\ UNCHANGED links
         ELSE /\ script' = Tail(script)
              /\ links' = [links EXCEPT ![line[2]] = With(@, line[1])]
  /\ UNCHANGED <<job, last, runs>>
-----------------------------------------------------------------------------
(* The tools.                                                              *)

Start(tool, range) ==
  /\ job.end # "running" /\ script = <<>> /\ runs < MaxRuns
  /\ runs' = runs + 1
  /\ last' = job
  /\ job' = [tool |-> tool, range |-> range,
             cold |-> \A v \in range : links[v] = {},
             bare |-> \A v \in Vlan : links[v] = {},
             silent |-> {v \in range : "quiet" \in links[v]},
             end |-> "running"]
  /\ script' = Script(tool, range)
  /\ UNCHANGED links

\* The script is over: its last command was, whatever became of it, followed by
\* "|| true", or nobody looks at its exit code.
Done ==
  /\ job.end = "running" /\ script = <<>>
  /\ job' = [job EXCEPT !.end = "done"]
  /\ UNCHANGED <<links, script, last, runs>>

\* docker exec fails or breaks off.
Fail ==
  /\ job.end = "running"
  /\ job' = [job EXCEPT !.end = "failed"]
  /\ script' = <<>>
  /\ UNCHANGED <<links, last, runs>>

Kill ==
  /\ job.end = "running"
  /\ job' = [job EXCEPT !.end = "killed"]
  /\ script' \in {script, <<>>}
  /\ UNCHANGED <<links, last, runs>>

Next ==
  \/ \E tool \in Tools, range \in SUBSET Vlan \ {{}} : Start(tool, range)
  \/ Step
  \/ Done
  \/ Fail
  \/ Kill

Spec == Init /\ [][Next]_vars
-----------------------------------------------------------------------------
(* Properties.                                                             *)

Finished(tool) == job.tool = tool /\ job.end = "done"

\* When configure_vlans.py calls a setup successful, none of the requested
\* subinterfaces the client has sends IPv6 frames, whoever created it: these
\* would keep the VLAN active on the leaf.  From a cold start all of them are
\* there and complete.
SetupKeepsItsWord ==
  Finished("setup") =>
    \A v \in job.range :
      /\ links[v] # {} => "quiet" \in links[v]
      /\ job.cold => links[v] = {"link", "mac", "up", "address", "quiet"}

\* configure_vlans.py cleanup undoes the setup of the same VLANs on a bare
\* client, finished or not: what an interrupted setup has made is the first
\* part of the list, and the deletion that stops at the first link that is
\* missing goes through it in the same order.
CleanupUndoesSetup ==
  Finished("cleanup") /\ last.tool = "setup" /\ last.range = job.range /\ last.bare =>
    \A v \in Vlan : links[v] = {}

\* The trigger of measure_setup_rate.py, if not broken off, configures every VLAN
\* under the client's MAC, whatever an earlier run had left there, so that a
\* single leftover does not make a no-op of all of it.  It leaves IPv6 on, which
\* sends the frame, but where a setup or a virtual machine had switched it off:
\* there the trigger stays silent.
TriggerReaches ==
  Finished("trigger") =>
    \A v \in job.range :
      /\ {"link", "mac", "up", "address"} \subseteq links[v]
      /\ "quiet" \in links[v] => v \in job.silent

\* A setup that is called successful has set up what it was asked for.  The
\* comment in setup_client takes errors for already existing interfaces to be
\* ignored; but the batches are run without -force and end there.
SetupCompletes ==
  Finished("setup") =>
    \A v \in job.range : {"link", "mac", "up", "address", "quiet"} \subseteq links[v]
=============================================================================
