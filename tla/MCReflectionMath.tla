-------------------------- MODULE MCReflectionMath --------------------------
EXTENDS ReflectionMath
=============================================================================
