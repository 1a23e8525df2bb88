----------------------------- MODULE MCModules ------------------------------
EXTENDS Modules

CONSTANTS a, b, c,   \* static modules
          d,         \* a module that is deleted when it is finished
          x          \* a module that is not registered

Boot == <<a, b>>
New  == {<<a, b>>, <<b, c, a>>, <<c, b>>, <<a, d>>, <<a, x>>, <<b, a, b>>}
=============================================================================
