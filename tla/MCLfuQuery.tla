------------------------------ MODULE MCLfuQuery ------------------------------
(* Small command lines, files and malformed objects for LfuMeaning.        *)
EXTENDS LfuMeaning

MCSizeUnit == [b |-> 2, c |-> 1, k |-> 4, m |-> 8]
MCTimeUnit == [s |-> 1, m |-> 2, h |-> 4, d |-> 8, w |-> 16]

NotOpt == [opt |-> "NOT"]
Time(which, sign, terms) == [opt |-> which, ok |-> TRUE, sign |-> sign, terms |-> terms]
Count(which, sign, n) == [opt |-> which, ok |-> TRUE, sign |-> sign, n |-> n]
Size(which, sign, whole, frac, unit) ==
  [opt |-> which, ok |-> TRUE, sign |-> sign, whole |-> whole, frac |-> frac,
   div |-> 10, unit |-> unit]
Id(which, n) == [opt |-> which, ok |-> TRUE, n |-> n]
Perm(prefix, bits) == [opt |-> "PERM", ok |-> TRUE, prefix |-> prefix, bits |-> bits]
Attrs(want, nowant) == [opt |-> "ATTRS", ok |-> TRUE, want |-> want, nowant |-> nowant]
Ost(ranges) == [opt |-> "OST", ok |-> TRUE, ranges |-> ranges]
Glob(which, names, long) == [opt |-> which, ok |-> TRUE, names |-> names, long |-> long]
Layout(bits) == [opt |-> "LAYOUT", ok |-> TRUE, bits |-> bits]
Bad == [opt |-> "UID", ok |-> FALSE]

Term(n, u) == [n |-> n, unit |-> u]

(* One of every option, with each sign on one of its kind, and texts their *)
(* parsers refuse.                                                         *)
Singles ==
  {Bad, Time("MTIME", "", <<>>), Attrs({}, {}), Layout({}), Ost(<<>>),
   Ost(<<<<2, 1>>>>), Ost(<<<<0, 3>>>>), Glob("NAME", {"a"}, TRUE),
   Time("MTIME", "", <<Term(1, "h")>>), Time("MTIME", "", <<Term(1, "w")>>),
   Time("ATIME", "-", <<Term(1, "d"), Term(2, "s")>>),
   Time("CTIME", "+", <<Term(1, "h"), Term(1, "m")>>),
   Time("BTIME", "", <<Term(0, "d")>>),
   Id("a", 4), Id("b", 1), Id("GID", 1), Id("PROJID", 1), Id("MDT_HASH", 2),
   Count("LINKS", "+", 1), Count("STRIPE_COUNT", "-", 2), Count("MIRROR_COUNT", "", 2),
   Count("COMP_COUNT", "+", 1), Count("MDT_COUNT", "", 2),
   Size("SIZE", "", 1, 0, "k"), Size("SIZE", "", 1, 0, "m"), Size("SIZE", "-", 1, 5, "k"),
   Size("SIZE", "", 0, 0, ""), Size("BLOCKS", "", 2, 0, ""), Size("BLOCKS", "+", 3, 0, "c"),
   Size("DEV_BLOCKS", "-", 2, 0, "b"),
   Size("STRIPE_SIZE", "", 4, 0, ""), Size("STRIPE_SIZE", "", 16, 0, "c"),
   Perm("", {"r"}), Perm("-", {"r"}), Perm("/", {"r", "w"}),
   Layout({"mdt", "foreign"}), Glob("POOL", {""}, FALSE)}

(* Options combined with each other.                                       *)
Combined ==
  {NotOpt, Id("UID", 1), [opt |-> "TYPE", ok |-> TRUE, type |-> "file"],
   Attrs({"immutable"}, {"compressed"}),
   Size("SIZE", "+", 1, 0, "k"), Size("BLOCKS", "-", 2, 0, ""),
   Count("STRIPE_COUNT", "", 2), Ost(<<<<1, 1>>, <<3, 3>>>>),
   Glob("POOL", {"flash"}, FALSE), Layout({"released"}),
   Glob("NAME", {"a", "b"}, FALSE)}

Mixed == {NotOpt, Id("UID", 1), Size("SIZE", "+", 1, 0, "k"),
          Glob("NAME", {"a", "b"}, FALSE)}

MCCommands ==
  {<<>>} \cup {<<o>> : o \in Singles} \cup {<<NotOpt, o>> : o \in Singles}
  \cup {<<o>> : o \in Combined} \cup (Combined \X Combined)
  \cup {<<NotOpt>> \o s : s \in Mixed \X Mixed}
  \cup {s \o <<NotOpt, o>> : s \in {<<m>> : m \in Mixed}, o \in Mixed}
  \cup {s \o t : s \in Mixed \X Mixed, t \in {<<NotOpt, Id("UID", 1)>>, <<Id("GID", 1)>>, <<Id("GID", 1), Id("UID", 1)>>}}

(* --size 1M.                                                              *)
MarginCommands == {<<Size("SIZE", "", 1, 0, "m")>>}

Stamps(t) == [ATIME |-> t, MTIME |-> t, CTIME |-> t, BTIME |-> 0]

Comp(kind, released, osts, count, size, pool) ==
  [kind |-> kind, released |-> released, osts |-> osts, count |-> count,
   stripe_size |-> size, pool |-> pool]

Plain == [type |-> "file", perm |-> {"r"}, flags |-> {},
          id |-> [UID |-> 1, GID |-> 1, PROJID |-> 0, LINKS |-> 1],
          stamp |-> Stamps(12), size |-> 3, blocks |-> 2, dev |-> 1,
          layout |-> <<>>, mirrors |-> 1, som |-> "none", dir |-> <<>>,
          names |-> <<"a">>, big |-> {}]

Raid(osts, pool) == Comp("raid0", FALSE, osts, Len(osts), 16, pool)

MCFiles ==
  {Plain,
   [Plain EXCEPT !.size = 8, !.perm = {"r", "w"}, !.flags = {"immutable"},
                 !.names = <<"c", "b">>, !.id["LINKS"] = 2],
   [Plain EXCEPT !.flags = {"immutable", "compressed"}, !.stamp = Stamps(21)],
   [Plain EXCEPT !.type = "dir", !.id["UID"] = 0, !.dir = <<2, 2, {}>>, !.size = 6,
                 !.stamp = Stamps(30)],
   [Plain EXCEPT !.type = "dir", !.dir = <<3, 2, {"migrating"}>>, !.stamp = Stamps(4)],
   [Plain EXCEPT !.layout = <<Raid(<<0, 1>>, "")>>, !.size = 6],
   [Plain EXCEPT !.layout = <<Raid(<<0, 1>>, "flash")>>, !.size = 6, !.som = "lazy"],
   [Plain EXCEPT !.layout = <<Raid(<<2>>, "disk")>>, !.size = 2, !.som = "strict",
                 !.names = <<"c">>],
   [Plain EXCEPT !.layout = <<Raid(<<3>>, "")>>, !.som = "stale", !.id["UID"] = 0],
   [Plain EXCEPT !.layout = <<Comp("mdt", FALSE, <<>>, 0, 8, "")>>, !.size = 5],
   [Plain EXCEPT !.layout = <<Comp("raid0", TRUE, <<>>, 2, 16, "flash")>>, !.size = 7],
   [Plain EXCEPT !.layout = <<Comp("mdt", FALSE, <<>>, 0, 4, ""), Raid(<<1>>, "flash"),
                              Raid(<<3>>, "disk")>>,
                 !.mirrors = 2, !.som = "lazy", !.size = 5, !.big = {"LOV"}],
   [Plain EXCEPT !.layout = <<Comp("foreign", FALSE, <<>>, 0, 0, "")>>]}

(* Objects whose xattrs no Lustre writes: cut short, of unknown magic,     *)
(* with more stripes than objects, entries outside the value, and a link   *)
(* xattr that goes bad after its first name.                               *)
Entry(placed, whole, magic, count, osts) ==
  [placed |-> placed, whole |-> whole, magic |-> magic, pattern |-> {"raid0"},
   stripe_count |-> count, osts |-> osts, stripe_size |-> 16, pool |-> "flash"]

Lov(nent, comps) ==
  [len |-> "full", comp |-> TRUE, nent |-> nent, mirrors |-> 0, comps |-> comps]

WithEA(x, ea) == [OnDisk(Plain) EXCEPT !.eas[x] = ea]

Malformed ==
  {WithEA("LOV", [len |-> "short", comp |-> c]) : c \in BOOLEAN}
  \cup {WithEA("LOV", Lov(n, <<Entry(p, w, m, 2, <<1>>), Entry(TRUE, TRUE, "V3", 1, <<0, 3>>)>>)) :
          n \in {1, 3}, p \in BOOLEAN, w \in BOOLEAN, m \in {"V1", "other"}}
  \cup {WithEA("SOM", [len |-> "short"]), WithEA("LMV", [len |-> "short"]),
        WithEA("LMV", [len |-> "full", magic |-> "other", count |-> 2,
                      hash |-> [type |-> 2, flags |-> {}]])}
  \cup {WithEA("LINK", [len |-> "full", magic |-> m, reccount |-> n,
                        entries |-> <<[name |-> "c", good |-> TRUE],
                                      [name |-> "b", good |-> g]>>]) :
          m \in {"host", "swapped", "bad"}, n \in {1, 3}, g \in BOOLEAN}

MCTargets == {OnDisk(f) : f \in MCFiles} \cup Malformed

(* A file with a stale SOM whose first component is on the MDT, and a      *)
(* command line that asks for both its size and its stripe size.           *)
DomFiles ==
  {[Plain EXCEPT !.layout = <<Comp("mdt", FALSE, <<>>, 0, 4, ""), Raid(<<1>>, "")>>,
                 !.som = "stale", !.size = 6]}
DomTargets == {OnDisk(f) : f \in DomFiles}
DomCommands == {<<Size("SIZE", "+", 1, 0, "k"), Size("STRIPE_SIZE", "", 16, 0, "c")>>}
=============================================================================
