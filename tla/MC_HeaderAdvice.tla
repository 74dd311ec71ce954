-------------------------- MODULE MC_HeaderAdvice --------------------------
(* Sites with every value of half of the headers, and those with bad ones throughout. *)
EXTENDS HeaderAdvice

MCPolicies ==
    {NoPolicy,
     [NoPolicy EXCEPT !.directives = {"default-src", "frame-ancestors"}],
     [NoPolicy EXCEPT !.directives = {"script-src"}, !.inline = {"script-src"}, !.data = {"script-src"}],
     [NoPolicy EXCEPT !.directives = {"default-src"}, !.inline = {"default-src"}, !.eval = TRUE],
     [NoPolicy EXCEPT !.directives = {"script-src", "img-src"}, !.wildcard = {"script-src", "img-src"}],
     [NoPolicy EXCEPT !.directives = {"script-src", "style-src", "frame-ancestors"},
                      !.inline = {"script-src", "style-src"}, !.wildcard = {"style-src"}]}

Bare == [referrer : {"absent", "unsafe"}, xcto : {"absent"}, permissions : {"absent"}, xxp : {"0"},
         server : {"version"}, powered : {"present"}, cache : {"absent", "caches"},
         hsts : {"absent"}, csp : MCPolicies, xfo : {"absent", "invalid"},
         acao : {"*"}, acac : {"true"}]

Careful == [referrer : {"safe"}, xcto : {"nosniff"}, permissions : {"present"}, xxp : {"absent", "0"},
            server : {"absent"}, powered : {"absent"}, cache : {"prevents", "absent"},
            hsts : {"absent", "zero", "short", "unreadable", "year"}, csp : MCPolicies,
            xfo : {"absent", "invalid", "standard"}, acao : {"absent", "*", "origin"}, acac : {"absent", "true"}]

MCPages == Bare \cup Careful
=============================================================================
