----------------------------- MODULE MCProgram ------------------------------
(* Lines of each tag, valid ones and others, and the ways to start.        *)
EXTENDS Program

CONSTANTS m1, m2

Line(tag, n, from, to, rest) ==
  [tag |-> tag, n |-> n, from |-> from, to |-> to, rest |-> rest]

BindLines == {Line("bind", 80, "h1", "", ""), Line("bind", 65536, "", "", "")}

MCLines ==
  BindLines \cup
    {Line("admin", 8182, "", "", ""),
     Line("server", 90, "h1", "", ""), Line("alsobind", 81, "unknown", "", ""),
     Line("filter", 0, "h1", "h2", "deny"), Line("filter", 0, "h1", "unknown", "deny"),
     Line("task", 60, "", "", "past"),
     Line("retryserver", 60, "", "", ""),
     Line("conperthread", 1, "", "", ""), Line("comment", 0, "", "", "")}

FewLines == {Line("bind", 80, "h1", "", ""), Line("server", 90, "h1", "", "")}

MCArguments ==
  {<<"console", "license">>, <<"console">>}

FewArguments == {<<"configfile", "path", "daemon">>}
=============================================================================
