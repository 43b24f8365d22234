-------------------------- MODULE MCServiceRegistry --------------------------
(* The registry with a server p, and a process q of any uid. *)
EXTENDS ServiceRegistry

CONSTANTS p, q, foo, illegal

SystemAndAny == {[x \in {p, q} |-> IF x = p THEN "system" ELSE u] :
                    u \in {"system", "app", "isolated"}}
TwoNames == [n \in {foo, illegal} |->
    IF n = foo THEN [package |-> "a", iface |-> "IFoo", instance |-> "default"] ELSE Null]

Line(package, iface, instance, apex) ==
    [slash |-> TRUE, dot |-> TRUE, package |-> package, iface |-> iface,
     instance |-> instance, apex |-> apex]
Broken == [Line("a", "IFoo", "x", Null) EXCEPT !.slash = FALSE]
SomeLines == <<Null, Broken, Line("a", "IFoo", "default", "apex1"), Line("a", "IBar", "default", Null)>>
OtherLines == <<Line("a", "IBar", "default", Null), Line("a", "IFoo", "default", "apex1")>>
NoLines == << >>
===============================================================================
