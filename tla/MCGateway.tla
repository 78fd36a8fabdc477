----------------------------- MODULE MCGateway ------------------------------
EXTENDS GatewayProps, TLC

CONSTANTS c1, c2, c3

MCCalls == {c1, c2, c3}
MCFiles == {"document.pdf", "mercuriale", "template"}
MCBucketOf ==
  [f \in MCFiles |-> IF f = "document.pdf" THEN "dce-entrants" ELSE "kliops-config"]
MCSources == {"postgres", "excel", "erp"}

\* Any three calls about prices, and the calls on files that meet: uploads to
\* one file, to one bucket, and documents made while the template is replaced.
MCWorkloads ==
  LET Load(k1, k2, k3) == (c1 :> k1) @@ (c2 :> k2) @@ (c3 :> k3)
  IN  {Load(k, "price", "price") : k \in {"price", "register"}}
      \cup {Load("register", "register", k) : k \in {"price", "register"}}
      \cup {Load("tender", "tender", "mercuriale"),
            Load("mercuriale", "template", "compile"),
            Load("template", "template", "compile"), Load("template", "compile", "compile")}
=============================================================================
