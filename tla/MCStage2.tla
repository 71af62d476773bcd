------------------------------ MODULE MCStage2 ------------------------------
(* Guests for Stage2. *)
EXTENDS Stage2

Extent(inside, outside, count) == [inside |-> inside, outside |-> outside, count |-> count]

Bind(source, target, writable) == [source |-> source, target |-> target, writable |-> writable]
Console(num, opens) == [num |-> num, opens |-> opens]

Base == [consoles |-> {Console(0, "ok"), Console(1, "ok")}, missing |-> {}, lacks |-> {},
         serials |-> <<"", "vmsh0">>, fs |-> <<"EINVAL", "ok">>,
         kinds |-> {"mnt", "net", "user"}, same |-> {"user"},
         ids |-> <<Extent(0, 0, 9)>>, owner |-> 0, caps |-> {0}, lsm |-> "none", label |-> "own", exec |-> "",
         context |-> FALSE, binds |-> {Bind("dir", "dir", TRUE), Bind("file", "none", TRUE)}]

MCGuests == {
    Base,
    [Base EXCEPT !.missing = {"proc", "dev"}, !.lacks = {"proc", "tmp"}, !.fs = <<"EINVAL", "EPERM", "ok">>],
    [Base EXCEPT !.missing = {"sys"}, !.lacks = {"sys"}, !.owner = 4, !.label = "confined",
                 !.lsm = "apparmor", !.caps = {}],
    [Base EXCEPT !.lsm = "apparmor", !.lacks = {"tmp"}],
    [Base EXCEPT !.lsm = "selinux", !.label = "confined"],
    [Base EXCEPT !.lsm = "selinux", !.label = "confined", !.exec = "chosen", !.context = TRUE],
    [Base EXCEPT !.lsm = "selinux", !.label = "confined", !.exec = "chosen"],
    [Base EXCEPT !.consoles = {Console(0, "ok"), Console(1, "ok"), Console(2, "ENODEV")},
                 !.binds = {Bind("dir", "file", TRUE), Bind("none", "dir", TRUE),
                            Bind("file", "none", FALSE)}],
    [Base EXCEPT !.consoles = {Console(0, "ok"), Console(1, "EIO")}],
    [Base EXCEPT !.binds = {Bind("error", "dir", TRUE)}],
    [Base EXCEPT !.ids = [n \in 1 .. 6 |-> Extent(n, n, 1)]],
    [Base EXCEPT !.kinds = {"mnt", "net"}, !.same = {}, !.caps = {0, 1}],
    [Base EXCEPT !.same = {}, !.owner = 7, !.ids = <<Extent(3, 1, 2), Extent(0, 6, 3)>>],
    [Base EXCEPT !.same = {}, !.owner = 6, !.ids = <<Extent(3, 1, 2), Extent(0, 6, 3)>>],
    [Base EXCEPT !.owner = 8, !.ids = <<Extent(0, 0, 8)>>],
    [Base EXCEPT !.kinds = {"net", "user"}],
    [Base EXCEPT !.serials = <<"disk">>]}

=============================================================================
