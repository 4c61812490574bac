---------------------------- MODULE MemberStatus ----------------------------
(* The status machine of a member (internal/member/service.go).            *)

Statuses == {"pending", "active", "suspended", "closed", "rejected"}

\* The transitions the service allows; no other status has an entry.
statusTransitions ==
    {<<"pending", "active">>, <<"pending", "rejected">>, <<"active", "suspended">>,
     <<"active", "closed">>, <<"suspended", "active">>}
=============================================================================
