------------------------------- MODULE MCServer -------------------------------
(***************************************************************************)
(* The environments differ from a base in one group of variables each, or  *)
(* in several whose readers are independent.  int64 has 8 bits here and k  *)
(* is 4: a size of 2g is negative and one of 4g is zero.                   *)
(***************************************************************************)
EXTENDS Server

CONSTANTS c1, c2

MCConn == {c1, c2}

Size(n, suffix) == [form |-> "number", n |-> n, suffix |-> suffix]
NoSize(form) == [form |-> form, n |-> 0, suffix |-> ""]
Duration(n) == [form |-> "number", n |-> n]
NoDuration(form) == [form |-> form, n |-> 0]

MIME(type, sub, upper, param) == [type |-> type, sub |-> sub, upper |-> upper, param |-> param]
Image == MIME("image", "*", FALSE, FALSE)
Pdf == MIME("application", "pdf", FALSE, FALSE)
Blank == MIME("", "", FALSE, FALSE)

MCContentTypes ==
    [type : {"image", "application"}, sub : {"png", "pdf"}, upper : BOOLEAN, param : BOOLEAN]
        \cup {Blank}

Base == [ backend |-> "agent", mode |-> "", email |-> "unset", jwt |-> {}, exchange |-> {},
          refresh |-> NoDuration("unset"), platform |-> "",
          route |-> [p \in Prefixes |-> ""], maxBytes |-> NoSize("unset"),
          timeout |-> NoDuration("unset"), mime |-> {}, log |-> "true" ]

JWT == [Base EXCEPT !.mode = "jwt", !.jwt = JWTVars]

\* Environments that Load takes; the groups vary side by side.
Serving ==
    { Base,
      [Base EXCEPT !.log = "false", !.mime = {Blank}, !.maxBytes = Size(127, ""),
                   !.mode = "proxy"],
      [Base EXCEPT !.mime = {Image}, !.maxBytes = Size(31, "k"), !.mode = "proxy",
                   !.email = ""],
      [Base EXCEPT !.mime = {MIME("image", "*", TRUE, FALSE), Blank}, !.maxBytes = Size(1, "g"),
                   !.platform = "/", !.exchange = ExchangeVars],
      [Base EXCEPT !.mime = {Pdf, MIME("image", "png", TRUE, FALSE)}, !.maxBytes = Size(2, "g"),
                   !.platform = "malformed",
                   !.route = [p \in Prefixes |-> IF p = "feedback" THEN "true" ELSE "false"]],
      [Base EXCEPT !.mime = {MIME("*", "*", FALSE, FALSE)}, !.maxBytes = Size(4, "g"),
                   !.timeout = Duration(1), !.exchange = {"url"}],
      [JWT EXCEPT !.mime = {MIME("image", "png", FALSE, TRUE)}],
      [JWT EXCEPT !.exchange = ExchangeVars, !.refresh = NoDuration("blank")] }

\* Environments that end the start.
Refused ==
    { [Base EXCEPT !.maxBytes = size] :
          size \in {NoSize("junk"), NoSize("blank"), Size(0, "m"), Size(-1, "k"), Size(128, "")} }
    \cup { [Base EXCEPT !.timeout = d] :
          d \in {NoDuration("junk"), NoDuration("blank"), Duration(0), Duration(-1)} }
    \cup { [JWT EXCEPT !.refresh = d] : d \in {NoDuration("junk"), Duration(-1)} }
    \cup { [JWT EXCEPT !.jwt = vars1] : vars1 \in SUBSET JWTVars \ {JWTVars} }
    \cup { [JWT EXCEPT !.exchange = vars2] :
             vars2 \in SUBSET ExchangeVars \ {{}, ExchangeVars} }
    \cup { [Base EXCEPT !.backend = url] : url \in {"", "malformed"} }
    \cup { [Base EXCEPT !.platform = "malformed"], [Base EXCEPT !.mode = "unknown"] }

MCEnvironments == Serving \cup Refused
===============================================================================
