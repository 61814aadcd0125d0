-------------------------- MODULE MCVulnEvaluation --------------------------
(***************************************************************************)
(* Small releases and inputs for the version evaluation.                   *)
(***************************************************************************)
EXTENDS VulnEvaluation

CONSTANTS MaxEvents    \* bound: events of the one range of a range task

\* A release candidate that has two numbers, its release, and numbers too wide.
V(minor, preRelease) == [core |-> <<1, minor, 0>>, preRelease |-> preRelease]
Number(n) == [numeric |-> TRUE, at |-> n]
Word(n) == [numeric |-> FALSE, at |-> n]
Candidate(n) == V(1, <<Word(RC), Number(n)>>)
Wide(n) == V(1, <<Number(MaxUint + n)>>)

\* A lower and a higher version.
Pairs == {<<Candidate(1), Candidate(2)>>, <<Candidate(2), V(1, <<>>)>>,
          <<V(1, <<Number(2)>>), V(1, <<Number(2), Number(0)>>)>>,
          <<V(1, <<>>), V(2, <<Word(0)>>)>>, <<Wide(1), Wide(2)>>}
One == V(1, <<>>)

\* Events at the two versions of a pair, with everything that can be wrong with one.
MCEvents(pair) ==
  LET versions == {pair[1], pair[2], Invalid}
  IN  [kind : {"introduced"}, at : versions \cup {FromZero}]
      \cup [kind : Ends, at : versions]
      \cup [kind : {"malformed"}]

\* Toolchains "1.1rc1", "1.1rc2", "1.1beta2", "1.1", "1.1.0", "1.1.1", and with a suffix.
Go(base, marker, serial, suffix) ==
  [base |-> base, marker |-> marker, serial |-> serial, suffix |-> suffix]
Released11 == Go(<<1, 1>>, None, 0, <<>>)
MCToolchains ==
  {None, Invalid, Released11, Go(<<1, 1>>, RC, 1, <<>>), Go(<<1, 1>>, RC, 2, <<>>),
   Go(<<1, 1>>, Beta, 2, <<>>), Go(<<1, 1, 0>>, None, 0, <<>>), Go(<<1, 1, 1>>, None, 0, <<>>),
   Go(<<1, 1>>, RC, 1, <<Word(0)>>), Go(<<1, 1, 1>>, None, 0, <<Word(0)>>),
   Go(<<1, MaxUint + 1>>, None, 0, <<>>), Go(<<1, 1, 0>>, RC, 1, <<>>), Go(<<1>>, None, 0, <<>>)}

Semver(list) == [semver |-> TRUE, events |-> list]
From(version) == [kind |-> "introduced", at |-> version]
Fixed(version) == [kind |-> "fixed", at |-> version]

Entry(name, imports, list) == [name |-> name, imports |-> imports, ranges |-> list]
Release(recs) == [records |-> recs, fetchedAt |-> 1, maxAge |-> 1]
Reviewed(list) == [reviewed |-> TRUE, affected |-> list]

Input(modules, toolchain) ==
  [complete |-> TRUE, modules |-> modules, toolchain |-> toolchain,
   imports |-> {"used"}, goos |-> "linux", goarch |-> "amd64"]
Task(recs, in, now, indexed) ==
  [release |-> Release(recs), input |-> in, now |-> now, indexed |-> indexed]

\* One range, any events, for the lower or the higher version.
RangeTasks(pair) ==
  {Task(1 :> Reviewed(<<Entry("m", {}, <<Semver(list)>>)>>), Input("m" :> pair[i], None), 1, TRUE) :
     list \in BoundedSeq(MCEvents(pair), MaxEvents), i \in {1, 2}}

\* One record of up to two entries: ranges that hold version One, do not, cannot be
\* read, in either order; imports that are used, on this platform or another.
Yes == Semver(<<From(FromZero)>>)
No == Semver(<<From(V(2, <<>>))>>)
Bad == Semver(<<Fixed(One)>>)
Other == [semver |-> FALSE, events |-> <<From(FromZero)>>]
Item(path, goos) == [path |-> path, goos |-> goos, goarch |-> {}]
EntryTasks ==
  LET entries == {Entry(name, imports, list) :
                    name \in {"m", "stdlib"},
                    imports \in {{}, {Item("used", {"windows"}), Item("unused", {})}},
                    list \in {<<>>, <<Yes>>, <<No>>, <<Yes, Bad>>, <<Other>>, <<No, Yes>>}}
  IN  {Task(1 :> Reviewed(list), Input(modules, toolchain), 1, indexed) :
         list \in BoundedSeq(entries, 2) \ {<<>>},
         modules \in {<<>>, "m" :> One, "m" :> Invalid},
         toolchain \in {None, Released11, Invalid},
         indexed \in BOOLEAN}

\* Two records and every clock.
RecordTasks ==
  LET recs == {[reviewed |-> reviewed, affected |-> <<Entry(name, {}, <<r>>)>>] :
                 reviewed \in BOOLEAN, name \in {"m", "toolchain", "absent"}, r \in {Yes, No, Bad}}
  IN  {Task(1 :> first @@ 2 :> second, Input("m" :> One, toolchain), now, indexed) :
         first \in recs, second \in recs, toolchain \in {None, Released11, Invalid},
         now \in {0, 1, 2, 3, None}, indexed \in BOOLEAN}

\* Every toolchain against what is fixed in release 1.1.
ToolchainTasks ==
  {Task(1 :> Reviewed(<<Entry("stdlib", {}, <<Semver(<<From(FromZero), Fixed(One)>>)>>)>>),
        Input(<<>>, toolchain), 1, indexed) :
     toolchain \in MCToolchains, indexed \in BOOLEAN}

\* An input that lacks something.
IncompleteTasks ==
  {[Task(1 :> Reviewed(<<Entry("m", {}, <<Yes>>)>>), Input("m" :> One, None), 1, indexed)
      EXCEPT !.input.complete = FALSE] : indexed \in BOOLEAN}

MCToolchainTasks == {ToolchainTasks}

MCTasks ==
  {RangeTasks(pair) : pair \in Pairs}
  \cup {EntryTasks, RecordTasks, ToolchainTasks, IncompleteTasks}
=============================================================================
