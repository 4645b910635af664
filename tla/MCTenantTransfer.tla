-------------------------- MODULE MCTenantTransfer --------------------------
(* TenantTransfer for TLC: what only names a thing is interchangeable. *)
EXTENDS TenantTransfer, TLC

CONSTANTS Ann, ANN, Bob   \* Bob is unfit, the first two are twins

TheTwins == {{Ann, ANN}}

Symmetry ==
  Permutations(Tenants) \cup Permutations(Slugs)
    \cup Permutations(Clients \ UnfitClients) \cup Permutations(Requests)

\* The people U are users with a role; C are contacts of all segments, and got
\* the campaign, unless it is a draft.
Holding(U, role, clients, C, unsubscribed, status) ==
  [open |-> role # "member", clients |-> clients, segments |-> Segments,
   users |-> [e \in People |-> IF e \in U THEN role ELSE None],
   contacts |-> [e \in People |-> IF e \in C THEN Segments ELSE None],
   unsubscribed |-> unsubscribed,
   campaign |-> [status |-> status, segments |-> Segments,
                 recipients |-> IF status = "draft" THEN {} ELSE C \ unsubscribed]]

\* A tenant with everything, for each role and each state of the campaign; and
\* what an import skips or refuses, in each table.
Full ==
  LET fit == {{c} : c \in Clients \ UnfitClients}
      unfit == {{c} : c \in UnfitClients}
  IN {Holding({Ann}, x, c, {Ann}, {}, y) : x \in Roles, c \in fit, y \in Statuses}
       \cup {Holding({}, "admin", c, {Ann, Bob}, S, y) :
               c \in fit, S \in {{Ann}, {Bob}}, y \in {"draft", "sent"}}
       \cup {Holding(U, "member", c, {}, {}, "draft") :
               U \in {{Ann, ANN}, {Bob}}, c \in fit}
       \cup {Holding({Ann}, "member", c, {}, {}, "draft") : c \in unfit}
=============================================================================
